---- MODULE Spec2Model ----
(***************************************************************************)
(* State-machine model of the HID transports of ipad-remote:               *)
(*   - the GATT tree of ble_hid_profile.py (Characteristic, Descriptor,    *)
(*     CCCDescriptor, HIDService) and BLEHIDProfile on top of it;          *)
(*   - the classic L2CAP transport of bt_hid_profile.py (HIDProfile);      *)
(*   - the keyboard report codec both transports share, and the key list   *)
(*     InputCapture._send_keyboard_state hands to it.                      *)
(*                                                                         *)
(* Python values: None is the string "none"; a byte list is a sequence of  *)
(* integers (Python index i is TLA+ index i + 1); an exception that        *)
(* escapes an operation is recorded in `raised`.                           *)
(*                                                                         *)
(* Every step records the operation it is in lastOp and what it produced:  *)
(* `emitted` (PropertiesChanged signals), `wire` (frames written to the    *)
(* interrupt channel), `printed` (the failure message it printed),          *)
(* `returned` and `raised`.  These describe the LAST step only; every      *)
(* action sets them.                                                       *)
(***************************************************************************)
EXTENDS Integers, Sequences, FiniteSets, TLC

VARIABLES
    \* BLEHIDProfile (ble_hid_profile.py:464-473)
    hid_service,      \* FALSE: None; TRUE: the HIDService built by start()
    ble_connected,    \* BLEHIDProfile.connected
    mainloop,         \* "none" | "running" | "quit"
    app_reg, adv_reg, \* RegisterApplication / RegisterAdvertisement at BlueZ:
                      \* "none" | "pending" | "registered" | "failed"
    \* GATT tree (Characteristic / CCCDescriptor fields)
    chrc_value,       \* Characteristic.value, per characteristic
    notifying,        \* Characteristic.notifying, per characteristic
    cccd_value,       \* CCCDescriptor.value, per report characteristic
    \* HIDProfile (bt_hid_profile.py:204-213)
    ctrl_sock, intr_sock,       \* "none" | "open" | "listening" | "closed"
    ctrl_client, intr_client,   \* "none" | "open" | "dead" | "closed"
    connected,                  \* HIDProfile.connected
    target_address,             \* "none" | "peer"
    \* HIDProfile.setup_sockets in progress
    setup_pc,         \* "idle" | "loop"
    attempt,          \* the loop variable of `for attempt in range(max_retries)`
    attempts_made,    \* bind attempts made by the current / last call
    setup_result,     \* "none" | "running" | "ok" | "fatal" | "oserror"
    \* HIDProfile.accept_connections in progress
    accept_pc,        \* "idle" | "ctrl" | "intr" | "test"
    ctrl_connected, intr_connected,     \* its two locals
    \* environment
    busy,             \* bind attempts that will still see "address in use"
    busy_at_call,     \* the value of busy when setup_sockets was called
    ctrl_pending, intr_pending,  \* a peer connection waits in the backlog
    \* codec inputs (drawn by the codec specification's Init)
    arg_modifier, arg_keys,
    arg_buttons, arg_x, arg_y, arg_wheel,
    \* InputCapture (input_capture.py:112-141)
    require_focus,    \* constructor argument
    capture_region,   \* constructor argument: << >> (None) or <<rx, ry, rw, rh>>
    capturing,
    focus_display,    \* "none" | "open" | "closed"; local_display and
                      \* record_display are opened and closed with it
    modifier_state,
    pressed_keys,     \* the set of pressed HID codes
    mouse_buttons,
    last_mouse_x, last_mouse_y,   \* None or a coordinate
    cursor_hidden,
    last_focus_check, \* _last_focus_check, in ticks of the clock `now`
    last_focus_state, \* _last_focus_state
    blank_cursor_id,  \* "none" | "cursor": the blank cursor and its raw display
    uxplay_window,    \* "none" | "window": the cached target window
    \* the capture threads
    reply_left,       \* events left in the reply the capture thread is processing
    stale_left,       \* events left in a reply a thread of a stopped cycle still processes
    crashed,          \* an exception ended the capture thread of the current cycle
    \* history
    prev_sample,      \* the last pointer sample since start(): <<x, y>>, or << >>
    held_modifiers,   \* the modifier keysyms whose key is down, by the events so far
    \* environment of InputCapture
    target_focused,   \* the target window holds the input focus
    query_raises,     \* the X server fails the focus query
    callback_raises,  \* the registered keyboard / mouse callback raises when called
    now,              \* time.time(), in ticks of 50 ms
    queries_now,      \* focus queries sent since the clock last advanced
    \* IPadRemote (main.py:30-35) and its asyncio event loop
    running,          \* IPadRemote.running
    run_pc,           \* where run() is: "idle" | "started" | "waiting" | "stopping" | "returned"
    loop_ready,       \* the loop's queue of ready callbacks, oldest first
    submitted,        \* history: reports the capture threads handed to the loop so far
    processed,        \* history: the reports whose coroutine ran, in the order they ran
    \* the last step
    lastOp, emitted, wire, printed, returned, raised,
    callbacks,        \* the keyboard / mouse callbacks the last step invoked
    queries           \* the answers the focus queries of the last step got

regVars == <<app_reg, adv_reg>>
bleVars == <<hid_service, ble_connected, mainloop, regVars>>
gattVars == <<chrc_value, notifying, cccd_value>>
sockVars == <<ctrl_sock, intr_sock>>
clientVars == <<ctrl_client, intr_client, connected, target_address>>
setupVars == <<setup_pc, attempt, attempts_made, setup_result>>
acceptVars == <<accept_pc, ctrl_connected, intr_connected>>
envVars == <<busy, busy_at_call, ctrl_pending, intr_pending>>
argVars == <<arg_modifier, arg_keys, arg_buttons, arg_x, arg_y, arg_wheel>>
btVars == <<sockVars, clientVars, setupVars, acceptVars, envVars>>
capConfig == <<require_focus, capture_region>>
capKeys == <<modifier_state, pressed_keys>>
capMouse == <<mouse_buttons, last_mouse_x, last_mouse_y>>
capCursor == <<cursor_hidden, last_focus_check, last_focus_state, blank_cursor_id, uxplay_window>>
capRun == <<capturing, focus_display, reply_left, stale_left, crashed>>
xEnv == <<target_focused, query_raises, callback_raises>>
capEnv == <<xEnv, now, queries_now>>
capHist == <<prev_sample, held_modifiers>>
capVars == <<capConfig, capKeys, capMouse, capCursor, capRun, capEnv, capHist>>
transportVars == <<bleVars, gattVars, btVars, argVars>>
appRun == <<running, run_pc>>
appLoop == <<loop_ready, submitted, processed>>
appVars == <<appRun, appLoop>>
outVars == <<lastOp, emitted, wire, printed, returned, raised, callbacks, queries>>
vars == <<bleVars, gattVars, btVars, argVars, capVars, appVars, outVars>>

(***************************************************************************)
(* Bounds and input sets                                                   *)
(***************************************************************************)
MaxKeyListLen == 7      \* longest key list handed to a keyboard report
MaxShift == 3           \* windows of the distinct-key sequence start at 0..MaxShift
MaxBusy == 6            \* most "address in use" failures the environment produces
MaxDelta == 129         \* pointer and wheel deltas reach from -MaxDelta to MaxDelta
MaxBatch == 2           \* most input events one RECORD reply carries
MaxTime == 3            \* the clock runs from 0 to MaxTime ticks
MaxReports == 3         \* most reports the capture threads hand to the event loop

\* Byte sequences a peer writes to a characteristic or a descriptor.
PeerWrites == {<< >>, <<0, 0>>, <<1, 0>>, <<2, 0>>, <<3>>}

Min(a, b) == IF a < b THEN a ELSE b
Max(a, b) == IF a > b THEN a ELSE b
Zeros(n) == [i \in 1..n |-> 0]
IsByte(b) == b \in 0..255
AllBytes(s) == \A i \in 1..Len(s) : IsByte(s[i])

Op(name, on, data, ints) == [op |-> name, on |-> on, data |-> data, ints |-> ints]

(***************************************************************************)
(* GATT tree                                                               *)
(***************************************************************************)
ReportChrcs == {"keyboard_report", "mouse_report"}
Chrcs == {"protocol_mode", "control_point"} \cup ReportChrcs

\* The attributes created with the flag 'read' alone: HID Information, Report
\* Map, the two Report Reference descriptors, Manufacturer Name and PnP ID.
ReadOnlyAttrs ==
    {"hid_info", "report_map", "keyboard_report_ref", "mouse_report_ref",
     "manufacturer_name", "pnp_id"}
Attrs == Chrcs \cup ReadOnlyAttrs

\* HID_REPORT_MAP, the report descriptor for keyboard (report 1) and mouse
\* (report 2)
HID_REPORT_MAP == <<
    5, 1, 9, 6, 161, 1, 133, 1, 5, 7, 25, 224, 41, 231, 21, 0,
    37, 1, 117, 1, 149, 8, 129, 2, 149, 1, 117, 8, 129, 1, 149, 6,
    117, 8, 21, 0, 37, 101, 5, 7, 25, 0, 41, 101, 129, 0, 192, 5,
    1, 9, 2, 161, 1, 133, 2, 9, 1, 161, 0, 5, 9, 25, 1, 41,
    3, 21, 0, 37, 1, 149, 3, 117, 1, 129, 2, 149, 1, 117, 5, 129,
    1, 5, 1, 9, 48, 9, 49, 9, 56, 21, 129, 37, 127, 117, 8, 149,
    3, 129, 6, 192, 192>>

\* The Report Reference descriptors: (report id, report type Input).
ReportReference ==
    [c \in ReportChrcs |-> IF c = "keyboard_report" THEN <<1, 1>> ELSE <<2, 1>>]

\* HIDService._setup_characteristics and DeviceInfoService._setup_characteristics:
\* the values the attributes start with.
InitialChrcValue ==
    [c \in Attrs |->
        CASE c = "protocol_mode" -> <<1>>
          [] c = "control_point" -> <<0>>
          [] c = "keyboard_report" -> Zeros(8)
          [] c = "mouse_report" -> Zeros(4)
          [] c = "hid_info" -> <<17, 1, 0, 3>>
          [] c = "report_map" -> HID_REPORT_MAP
          [] c = "keyboard_report_ref" -> ReportReference["keyboard_report"]
          [] c = "mouse_report_ref" -> ReportReference["mouse_report"]
          [] c = "manufacturer_name" -> <<76, 105, 110, 117, 120, 32, 72, 73, 68>>
          [] c = "pnp_id" -> <<2, 52, 18, 120, 86, 0, 1>>]

\* Characteristic.__init__: notifying = False.
InitialNotifying == [c \in Chrcs |-> FALSE]

\* CCCDescriptor.__init__: value = [0x00, 0x00].
InitialCccdValue == [c \in ReportChrcs |-> <<0, 0>>]

\* The flags each attribute is created with (_setup_characteristics).
Flags ==
    [c \in Attrs |->
        CASE c = "protocol_mode" -> {"read", "write-without-response"}
          [] c = "control_point" -> {"write-without-response"}
          [] c \in ReportChrcs -> {"read", "notify"}
          [] OTHER -> {"read"}]

Writable_Always(c) == TRUE

\* The attribute has a flag that lets BlueZ pass a peer's write on to it.
Writable(c) == Flags[c] \cap {"write", "write-without-response"} # {}

\* What a step produced: the operation, the signals, the frames, the return
\* value and the exception that escaped it.
OutPrinted(op, sig, frames, ret, exc, msg) ==
    /\ lastOp' = op
    /\ emitted' = sig
    /\ wire' = frames
    /\ printed' = msg
    /\ returned' = ret
    /\ raised' = exc
    /\ callbacks' = << >>
    /\ queries' = << >>

Out(op, sig, frames, ret, exc) == OutPrinted(op, sig, frames, ret, exc, "")

\* The peer reaches the tree through the bus: the objects exist and the GLib
\* main loop that dispatches method calls runs (start(), lines 525-569).
Dispatching == hid_service /\ mainloop = "running"

\* Characteristic.ReadValue
Chrc_ReadValue(c) ==
    /\ Dispatching
    /\ Out(Op("ReadValue", c, << >>, << >>), << >>, << >>, chrc_value[c], "none")
    /\ UNCHANGED <<bleVars, gattVars, btVars, argVars, capVars, appVars>>

\* Characteristic.WriteValue
Chrc_WriteValue(c, value) ==
    /\ Dispatching
    /\ chrc_value' = [chrc_value EXCEPT ![c] = value]
    /\ Out(Op("WriteValue", c, value, << >>), << >>, << >>, << >>, "none")
    /\ UNCHANGED <<bleVars, notifying, cccd_value, btVars, argVars, capVars, appVars>>

\* A peer's write request for an attribute.  BlueZ passes it on, as a call of
\* WriteValue, only when the flags the attribute was created with allow a
\* write; otherwise it answers the peer itself and no method is called.
Peer_write(c, value) ==
    IF Writable(c)
       THEN Chrc_WriteValue(c, value)
       ELSE /\ Dispatching
            /\ Out(Op("write_not_permitted", c, value, << >>), << >>, << >>, << >>, "none")
            /\ UNCHANGED <<bleVars, gattVars, btVars, argVars, capVars, appVars>>

\* Characteristic.StartNotify
StartNotify(c) ==
    /\ Dispatching
    /\ notifying' = [notifying EXCEPT ![c] = TRUE]
    /\ Out(Op("StartNotify", c, << >>, << >>), << >>, << >>, << >>, "none")
    /\ UNCHANGED <<bleVars, chrc_value, cccd_value, btVars, argVars, capVars, appVars>>

\* Characteristic.StopNotify
StopNotify(c) ==
    /\ Dispatching
    /\ notifying' = [notifying EXCEPT ![c] = FALSE]
    /\ Out(Op("StopNotify", c, << >>, << >>), << >>, << >>, << >>, "none")
    /\ UNCHANGED <<bleVars, chrc_value, cccd_value, btVars, argVars, capVars, appVars>>

NotificationsEnabled_AnyBit(value) == value[1] # 0

\* CCCDescriptor.WriteValue, the test `value[0] & 0x01`.
NotificationsEnabled(value) == value[1] % 2 = 1

\* CCCDescriptor.WriteValue: the value is stored first; value[0] of an empty
\* value then raises IndexError and notifying keeps its value.
CCCD_WriteValue(c, value) ==
    /\ Dispatching
    /\ cccd_value' = [cccd_value EXCEPT ![c] = value]
    /\ IF Len(value) = 0
          THEN /\ UNCHANGED notifying
               /\ Out(Op("CCCD.WriteValue", c, value, << >>),
                      << >>, << >>, << >>, "IndexError")
          ELSE /\ notifying' = [notifying EXCEPT ![c] = NotificationsEnabled(value)]
               /\ Out(Op("CCCD.WriteValue", c, value, << >>),
                      << >>, << >>, << >>, "none")
    /\ UNCHANGED <<bleVars, chrc_value, btVars, argVars, capVars, appVars>>

Signal(c, v) == [chrc |-> c, value |-> v]

notify_Ungated(c, v, op, caught) ==
    /\ chrc_value' = [chrc_value EXCEPT ![c] = v]
    /\ Out(op, <<Signal(c, v)>>, << >>, << >>, "none")

\* Characteristic.notify.  PropertiesChanged marshals the value as an array
\* of bytes and raises on an element outside 0..255, after the value is
\* stored; `caught` says whether the caller wraps the call in try/except.
notify(c, v, op, caught) ==
    IF ~notifying[c]
       THEN /\ UNCHANGED chrc_value
            /\ Out(op, << >>, << >>, << >>, "none")
       ELSE /\ chrc_value' = [chrc_value EXCEPT ![c] = v]
            /\ IF AllBytes(v)
                  THEN Out(op, <<Signal(c, v)>>, << >>, << >>, "none")
                  ELSE Out(op, << >>, << >>, << >>,
                           IF caught THEN "none" ELSE "ValueError")

\* A direct call of Characteristic.notify(value).
Chrc_notify(c, v) ==
    /\ hid_service
    /\ notify(c, v, Op("notify", c, v, << >>), FALSE)
    /\ UNCHANGED <<bleVars, notifying, cccd_value, btVars, argVars, capVars, appVars>>

(***************************************************************************)
(* Keyboard and mouse report codec (both transports)                       *)
(***************************************************************************)
PadKeys_NoTruncate(keys) == keys \o Zeros(6)

PadKeys_NoPadding(keys) == SubSeq(keys, 1, Min(6, Len(keys)))

\* `keys = (keys + [0] * 6)[:6]`
PadKeys(keys) == SubSeq(keys \o Zeros(6), 1, 6)

\* `[modifier_keys, 0x00] + keys`
KeyboardPayload(modifier_keys, keys) == <<modifier_keys, 0>> \o PadKeys(keys)

Clamp_Wraps(v) == v

\* `max(-127, min(127, v))`
Clamp(v) == Max(-127, Min(127, v))

\* `v & 0xFF`
ToByte(v) == v % 256

MousePayload_SwapsAxes(buttons, x, y, wheel) ==
    <<buttons, ToByte(Clamp(y)), ToByte(Clamp(x)), ToByte(Clamp(wheel))>>

\* `[buttons, x & 0xFF, y & 0xFF, wheel & 0xFF]` after clamping
MousePayload(buttons, x, y, wheel) ==
    <<buttons, ToByte(Clamp(x)), ToByte(Clamp(y)), ToByte(Clamp(wheel))>>

(***************************************************************************)
(* BLEHIDProfile                                                           *)
(***************************************************************************)
\* BLEHIDProfile.start.  Without an adapter exposing LEAdvertisingManager1
\* it raises before anything is created.  The agent, the application, the
\* services and the advertisement are exported at fixed object paths, so a
\* start() on a profile whose objects are already exported raises KeyError
\* at the first of them.
BleStartError(adapter) ==
    IF ~adapter THEN "Exception" ELSE IF hid_service THEN "KeyError" ELSE "none"

BleStartState_ConnectsFirst(adapter) ==
    IF BleStartError(adapter) = "KeyError"
       THEN UNCHANGED <<bleVars, gattVars>>
       ELSE /\ hid_service' = (BleStartError(adapter) = "none")
            /\ chrc_value' = InitialChrcValue
            /\ notifying' = InitialNotifying
            /\ cccd_value' = InitialCccdValue
            /\ app_reg' = IF BleStartError(adapter) = "none" THEN "pending" ELSE "none"
            /\ adv_reg' = IF BleStartError(adapter) = "none" THEN "pending" ELSE "none"
            /\ mainloop' = IF BleStartError(adapter) = "none" THEN "running" ELSE mainloop
            /\ ble_connected' = TRUE

\* What BLEHIDProfile.start does to the profile and its tree.
BleStartState(adapter) ==
    IF BleStartError(adapter) # "none"
       THEN UNCHANGED <<bleVars, gattVars>>
       ELSE /\ hid_service' = TRUE
            /\ chrc_value' = InitialChrcValue
            /\ notifying' = InitialNotifying
            /\ cccd_value' = InitialCccdValue
            /\ app_reg' = "pending"
            /\ adv_reg' = "pending"
            /\ mainloop' = "running"
            /\ ble_connected' = TRUE

\* BLEHIDProfile.start
BLE_start(adapter) ==
    /\ BleStartState(adapter)
    /\ Out(Op("start", "", << >>, << >>), << >>, << >>, << >>, BleStartError(adapter))
    /\ UNCHANGED <<btVars, argVars, capVars, appVars>>

\* What BLEHIDProfile.stop does to the profile: connected is cleared and the
\* GLib main loop is told to quit.
BleStopState ==
    /\ ble_connected' = FALSE
    /\ mainloop' = IF mainloop = "none" THEN "none" ELSE "quit"
    /\ UNCHANGED regVars

BLE_stop_Unsubscribes ==
    /\ ble_connected' = FALSE
    /\ mainloop' = IF mainloop = "none" THEN "none" ELSE "quit"
    /\ notifying' = InitialNotifying
    /\ Out(Op("stop", "", << >>, << >>), << >>, << >>, << >>, "none")
    /\ UNCHANGED <<hid_service, regVars, chrc_value, cccd_value, btVars, argVars, capVars,
                   appVars>>

\* BLEHIDProfile.stop
BLE_stop ==
    /\ BleStopState
    /\ Out(Op("stop", "", << >>, << >>), << >>, << >>, << >>, "none")
    /\ UNCHANGED <<hid_service, gattVars, btVars, argVars, capVars, appVars>>

\* BlueZ answers RegisterApplication (r = "app") or RegisterAdvertisement
\* (r = "adv"); the GLib main loop runs the reply_handler or the
\* error_handler start() passed (lines 539-562), which print a message.
Bluez_reply(r, ok) ==
    /\ mainloop = "running"
    /\ IF r = "app"
          THEN /\ app_reg = "pending"
               /\ app_reg' = IF ok THEN "registered" ELSE "failed"
               /\ UNCHANGED adv_reg
               /\ OutPrinted(Op("reply", r, << >>, << >>), << >>, << >>, << >>, "none",
                             IF ok THEN "GATT application registered"
                                   ELSE "Failed to register GATT")
          ELSE /\ adv_reg = "pending"
               /\ adv_reg' = IF ok THEN "registered" ELSE "failed"
               /\ UNCHANGED app_reg
               /\ OutPrinted(Op("reply", r, << >>, << >>), << >>, << >>, << >>, "none",
                             IF ok THEN "Advertisement registered"
                                   ELSE "Failed to register advertisement")
    /\ UNCHANGED <<hid_service, ble_connected, mainloop, gattVars, btVars, argVars,
                   capVars, appVars>>

\* The body of BLEHIDProfile.send_keyboard_report, recorded as operation op.
BleSendKeyboard(op, modifier_keys, keys) ==
    IF ~hid_service \/ ~ble_connected \/ ~notifying["keyboard_report"]
       THEN /\ UNCHANGED chrc_value
            /\ Out(op, << >>, << >>, << >>, "none")
       ELSE notify("keyboard_report", KeyboardPayload(modifier_keys, keys), op, TRUE)

\* BLEHIDProfile.send_keyboard_report
BLE_send_keyboard_report(modifier_keys, keys) ==
    /\ BleSendKeyboard(Op("send_keyboard_report", "keyboard_report", keys, <<modifier_keys>>),
                       modifier_keys, keys)
    /\ UNCHANGED <<bleVars, notifying, cccd_value, btVars, argVars, capVars, appVars>>

\* The body of BLEHIDProfile.send_mouse_report, recorded as operation op.
BleSendMouse(op, buttons, x, y, wheel) ==
    IF ~hid_service \/ ~ble_connected \/ ~notifying["mouse_report"]
       THEN /\ UNCHANGED chrc_value
            /\ Out(op, << >>, << >>, << >>, "none")
       ELSE notify("mouse_report", MousePayload(buttons, x, y, wheel), op, TRUE)

\* BLEHIDProfile.send_mouse_report
BLE_send_mouse_report(buttons, x, y, wheel) ==
    /\ BleSendMouse(Op("send_mouse_report", "mouse_report", << >>, <<buttons, x, y, wheel>>),
                    buttons, x, y, wheel)
    /\ UNCHANGED <<bleVars, notifying, cccd_value, btVars, argVars, capVars, appVars>>

(***************************************************************************)
(* The keyboard path from InputCapture to the GATT transport               *)
(***************************************************************************)
NoDup(lst) == \A i, j \in 1..Len(lst) : lst[i] = lst[j] => i = j

SurfacedKeys_DropsLast(listing) == SubSeq(listing, 1, Min(6, Len(listing)) - 1)

\* `keys = list(self.pressed_keys)[:6]`, for `listing` = list(self.pressed_keys)
SurfacedKeys(listing) == SubSeq(listing, 1, Min(6, Len(listing)))

\* InputCapture._send_keyboard_state while the target window is focused, with
\* main.py's on_keyboard_event as the callback: the modifier state and the
\* first six entries of the listing of the pressed-key set (a Python set is
\* listed in an order of its own, so `listing` is any duplicate-free list) go
\* to BLEHIDProfile.send_keyboard_report.
Capture_send_keyboard_state(modifiers, listing) ==
    /\ NoDup(listing)
    /\ BleSendKeyboard(Op("_send_keyboard_state", "keyboard_report", listing, <<modifiers>>),
                       modifiers, SurfacedKeys(listing))
    /\ UNCHANGED <<bleVars, notifying, cccd_value, btVars, argVars, capVars, appVars>>

(***************************************************************************)
(* HIDProfile: the classic transport                                       *)
(*                                                                         *)
(* HIDProfile is driven by one thread (main(), lines 438-458): a call      *)
(* starts only when no other call is in progress.  setup_sockets and       *)
(* accept_connections are loops and take one step per bind attempt and per *)
(* accept; the peer acts between the steps.                                *)
(***************************************************************************)
max_retries == 5

Idle == setup_pc = "idle" /\ accept_pc = "idle"

Remediation == "OSError: Could not bind to HID ports. Try running: ..."

\* HIDProfile.setup_sockets up to the retry loop: the existing sockets are
\* closed and unset.  The environment fixes here how many of the coming bind
\* attempts find the address in use.
BT_setup_sockets ==
    /\ Idle
    /\ \E n \in 0..MaxBusy : busy' = n /\ busy_at_call' = n
    /\ ctrl_sock' = "none"
    /\ intr_sock' = "none"
    /\ ctrl_pending' = FALSE
    /\ intr_pending' = FALSE
    /\ setup_pc' = "loop"
    /\ attempt' = 0
    /\ attempts_made' = 0
    /\ setup_result' = "running"
    /\ Out(Op("setup_sockets", "", << >>, << >>), << >>, << >>, << >>, "none")
    /\ UNCHANGED <<bleVars, gattVars, clientVars, acceptVars, argVars, capVars, appVars>>

RetryAllowed_OffByOne(a) == a < max_retries

\* `if attempt < max_retries - 1`
RetryAllowed(a) == a < max_retries - 1

\* One iteration of `for attempt in range(max_retries)` that ends in errno 98
\* at the bind of the control or of the interrupt socket: both sockets are
\* closed and unset, then the loop goes on or the fatal error is raised.
BT_setup_attempt_in_use ==
    /\ setup_pc = "loop"
    /\ busy > 0
    /\ busy' = busy - 1
    /\ attempts_made' = attempts_made + 1
    /\ ctrl_sock' = "none"
    /\ intr_sock' = "none"
    /\ IF RetryAllowed(attempt)
          THEN IF attempt + 1 < max_retries
                  THEN /\ attempt' = attempt + 1
                       /\ UNCHANGED <<setup_pc, setup_result>>
                       /\ OutPrinted(Op("setup_sockets", "", << >>, << >>),
                                     << >>, << >>, << >>, "none", "Sockets in use")
                  ELSE \* the loop is exhausted and the function returns
                       /\ setup_pc' = "idle"
                       /\ setup_result' = "returned"
                       /\ UNCHANGED attempt
                       /\ OutPrinted(Op("setup_sockets", "", << >>, << >>),
                                     << >>, << >>, << >>, "none", "Sockets in use")
          ELSE /\ setup_pc' = "idle"
               /\ setup_result' = "fatal"
               /\ UNCHANGED attempt
               /\ Out(Op("setup_sockets", "", << >>, << >>),
                      << >>, << >>, << >>, Remediation)
    /\ UNCHANGED <<bleVars, gattVars, clientVars, acceptVars, argVars, capVars, appVars,
                   busy_at_call, ctrl_pending, intr_pending>>

\* One iteration in which both sockets are created, bound and listening.
BT_setup_attempt_bound ==
    /\ setup_pc = "loop"
    /\ busy = 0
    /\ attempts_made' = attempts_made + 1
    /\ ctrl_sock' = "listening"
    /\ intr_sock' = "listening"
    /\ setup_pc' = "idle"
    /\ setup_result' = "returned"
    /\ Out(Op("setup_sockets", "", << >>, << >>), << >>, << >>, << >>, "none")
    /\ UNCHANGED <<bleVars, gattVars, clientVars, acceptVars, argVars, capVars, appVars, attempt, envVars>>

\* One iteration that ends in an OSError other than errno 98, at the bind of
\* the control socket or of the interrupt socket: it is re-raised as it is and
\* the sockets stay as they are.
BT_setup_attempt_oserror(at) ==
    /\ setup_pc = "loop"
    /\ attempts_made' = attempts_made + 1
    /\ IF at = "ctrl"
          THEN ctrl_sock' = "open" /\ intr_sock' = "none"
          ELSE ctrl_sock' = "listening" /\ intr_sock' = "open"
    /\ setup_pc' = "idle"
    /\ setup_result' = "oserror"
    /\ Out(Op("setup_sockets", "", << >>, << >>), << >>, << >>, << >>, "OSError")
    /\ UNCHANGED <<bleVars, gattVars, clientVars, acceptVars, argVars, capVars, appVars, attempt, envVars>>

\* HIDProfile.accept_connections up to its loop: settimeout on both listening
\* sockets; on None it raises AttributeError, on a closed socket OSError.
BT_accept_connections ==
    /\ Idle
    /\ IF ctrl_sock = "none" \/ intr_sock = "none"
          THEN /\ UNCHANGED acceptVars
               /\ Out(Op("accept_connections", "", << >>, << >>),
                      << >>, << >>, << >>, "AttributeError")
          ELSE IF ctrl_sock = "closed" \/ intr_sock = "closed"
          THEN /\ UNCHANGED acceptVars
               /\ Out(Op("accept_connections", "", << >>, << >>),
                      << >>, << >>, << >>, "OSError")
          ELSE /\ accept_pc' = "ctrl"
               /\ ctrl_connected' = FALSE
               /\ intr_connected' = FALSE
               /\ Out(Op("accept_connections", "", << >>, << >>),
                      << >>, << >>, << >>, "none")
    /\ UNCHANGED <<bleVars, gattVars, sockVars, clientVars, setupVars, envVars, argVars, capVars, appVars>>

\* `if not ctrl_connected:` accept on the control socket, or time out.
BT_accept_ctrl ==
    /\ accept_pc = "ctrl"
    /\ IF ctrl_connected
          THEN /\ accept_pc' = "intr"
               /\ UNCHANGED <<ctrl_client, target_address, ctrl_connected, ctrl_pending>>
               /\ Out(Op("accept_connections", "ctrl", << >>, << >>),
                      << >>, << >>, << >>, "none")
          ELSE IF ctrl_sock # "listening"
          THEN /\ accept_pc' = "idle"
               /\ UNCHANGED <<ctrl_client, target_address, ctrl_connected, ctrl_pending>>
               /\ Out(Op("accept_connections", "ctrl", << >>, << >>),
                      << >>, << >>, << >>, "OSError")
          ELSE IF ctrl_pending
          THEN /\ ctrl_client' = "open"
               /\ target_address' = "peer"
               /\ ctrl_connected' = TRUE
               /\ ctrl_pending' = FALSE
               /\ accept_pc' = "intr"
               /\ Out(Op("accept_connections", "ctrl", << >>, << >>),
                      << >>, << >>, << >>, "none")
          ELSE /\ accept_pc' = "intr"
               /\ UNCHANGED <<ctrl_client, target_address, ctrl_connected, ctrl_pending>>
               /\ Out(Op("accept_connections", "ctrl", << >>, << >>),
                      << >>, << >>, << >>, "none")
    /\ UNCHANGED <<bleVars, gattVars, sockVars, intr_client, connected, setupVars,
                   intr_connected, busy, busy_at_call, intr_pending, argVars, capVars, appVars>>

MayAcceptInterrupt_AnyOrder == ~intr_connected

\* `if ctrl_connected and not intr_connected:`
MayAcceptInterrupt == ctrl_connected /\ ~intr_connected

\* accept on the interrupt socket, or time out.
BT_accept_intr ==
    /\ accept_pc = "intr"
    /\ IF ~MayAcceptInterrupt
          THEN /\ accept_pc' = "test"
               /\ UNCHANGED <<intr_client, intr_connected, intr_pending>>
               /\ Out(Op("accept_connections", "intr", << >>, << >>),
                      << >>, << >>, << >>, "none")
          ELSE IF intr_sock # "listening"
          THEN /\ accept_pc' = "idle"
               /\ UNCHANGED <<intr_client, intr_connected, intr_pending>>
               /\ Out(Op("accept_connections", "intr", << >>, << >>),
                      << >>, << >>, << >>, "OSError")
          ELSE IF intr_pending
          THEN /\ intr_client' = "open"
               /\ intr_connected' = TRUE
               /\ intr_pending' = FALSE
               /\ accept_pc' = "test"
               /\ Out(Op("accept_connections", "intr", << >>, << >>),
                      << >>, << >>, << >>, "none")
          ELSE /\ accept_pc' = "test"
               /\ UNCHANGED <<intr_client, intr_connected, intr_pending>>
               /\ Out(Op("accept_connections", "intr", << >>, << >>),
                      << >>, << >>, << >>, "none")
    /\ UNCHANGED <<bleVars, gattVars, sockVars, ctrl_client, connected, target_address,
                   setupVars, ctrl_connected, busy, busy_at_call, ctrl_pending, argVars, capVars, appVars>>

\* `while not (ctrl_connected and intr_connected)`, and what follows the loop.
BT_accept_test ==
    /\ accept_pc = "test"
    /\ IF ~(ctrl_connected /\ intr_connected)
          THEN /\ accept_pc' = "ctrl"
               /\ UNCHANGED connected
               /\ Out(Op("accept_connections", "test", << >>, << >>),
                      << >>, << >>, << >>, "none")
          ELSE /\ accept_pc' = "idle"
               /\ connected' = TRUE
               /\ Out(Op("accept_connections", "done", << >>, << >>),
                      << >>, << >>, <<1>>, "none")
    /\ UNCHANGED <<bleVars, gattVars, sockVars, ctrl_client, intr_client, target_address,
                   setupVars, ctrl_connected, intr_connected, envVars, argVars, capVars, appVars>>

\* KeyboardInterrupt while accept_connections waits (main() catches it).
BT_accept_interrupted ==
    /\ accept_pc # "idle"
    /\ accept_pc' = "idle"
    /\ Out(Op("accept_connections", "interrupted", << >>, << >>),
           << >>, << >>, << >>, "KeyboardInterrupt")
    /\ UNCHANGED <<bleVars, gattVars, sockVars, clientVars, setupVars,
                   ctrl_connected, intr_connected, envVars, argVars, capVars, appVars>>

BtMaySend_IgnoresConnected == intr_client # "none"

\* `if not self.intr_client or not self.connected: return`, negated
BtMaySend == intr_client # "none" /\ connected

ConnectedAfterSendError_Kept == connected

\* `except Exception as e: ... self.connected = False`
ConnectedAfterSendError == FALSE

\* `self.intr_client.send(report)` in its try/except: the frame is written
\* when the interrupt client is open; otherwise send raises and the handler
\* prints the failure and marks the transport disconnected.
BtSend(op, frame) ==
    IF ~BtMaySend
       THEN /\ UNCHANGED connected
            /\ Out(op, << >>, << >>, << >>, "none")
       ELSE IF ~AllBytes(frame)
       THEN /\ UNCHANGED connected   \* bytes(...) raises outside the try
            /\ Out(op, << >>, << >>, << >>, "ValueError")
       ELSE IF intr_client = "open"
       THEN /\ UNCHANGED connected
            /\ Out(op, << >>, <<frame>>, << >>, "none")
       ELSE /\ connected' = ConnectedAfterSendError
            /\ OutPrinted(op, << >>, << >>, << >>, "none", "Failed to send")

BtKeyboardFrame_MouseId(modifier_keys, keys) ==
    <<161, 2>> \o KeyboardPayload(modifier_keys, keys)

\* `bytes([0xA1, 0x01, modifier_keys, 0x00] + keys)` after padding
BtKeyboardFrame(modifier_keys, keys) ==
    <<161, 1>> \o KeyboardPayload(modifier_keys, keys)

\* `bytes([0xA1, 0x02, buttons, x_byte, y_byte, wheel_byte])` after clamping
BtMouseFrame(buttons, x, y, wheel) ==
    <<161, 2, buttons, ToByte(Clamp(x)), ToByte(Clamp(y)), ToByte(Clamp(wheel))>>

\* HIDProfile.send_keyboard_report
BT_send_keyboard_report(modifier_keys, keys) ==
    /\ Idle
    /\ BtSend(Op("send_keyboard_report", "intr", keys, <<modifier_keys>>),
              BtKeyboardFrame(modifier_keys, keys))
    /\ UNCHANGED <<bleVars, gattVars, sockVars, ctrl_client, intr_client, target_address,
                   setupVars, acceptVars, envVars, argVars, capVars, appVars>>

\* HIDProfile.send_mouse_report
BT_send_mouse_report(buttons, x, y, wheel) ==
    /\ Idle
    /\ BtSend(Op("send_mouse_report", "intr", << >>, <<buttons, x, y, wheel>>),
              BtMouseFrame(buttons, x, y, wheel))
    /\ UNCHANGED <<bleVars, gattVars, sockVars, ctrl_client, intr_client, target_address,
                   setupVars, acceptVars, envVars, argVars, capVars, appVars>>

Closed(s) == IF s = "none" THEN "none" ELSE "closed"

\* HIDProfile.close
BT_close ==
    /\ Idle
    /\ connected' = FALSE
    /\ ctrl_client' = Closed(ctrl_client)
    /\ intr_client' = Closed(intr_client)
    /\ ctrl_sock' = Closed(ctrl_sock)
    /\ intr_sock' = Closed(intr_sock)
    /\ ctrl_pending' = FALSE
    /\ intr_pending' = FALSE
    /\ Out(Op("close", "", << >>, << >>), << >>, << >>, << >>, "none")
    /\ UNCHANGED <<bleVars, gattVars, target_address, setupVars, acceptVars,
                   busy, busy_at_call, argVars, capVars, appVars>>

\* The peer connects to the control or to the interrupt PSM, in any order;
\* the connection waits in the backlog of the listening socket.
Peer_connect(ch) ==
    /\ IF ch = "ctrl"
          THEN /\ ctrl_sock = "listening" /\ ~ctrl_pending
               /\ ctrl_pending' = TRUE
               /\ UNCHANGED intr_pending
          ELSE /\ intr_sock = "listening" /\ ~intr_pending
               /\ intr_pending' = TRUE
               /\ UNCHANGED ctrl_pending
    /\ Out(Op("peer_connect", ch, << >>, << >>), << >>, << >>, << >>, "none")
    /\ UNCHANGED <<bleVars, gattVars, sockVars, clientVars, setupVars, acceptVars,
                   busy, busy_at_call, argVars, capVars, appVars>>

\* The peer drops an accepted channel: a later send on it raises.
Peer_disconnect(ch) ==
    /\ IF ch = "ctrl"
          THEN /\ ctrl_client = "open"
               /\ ctrl_client' = "dead"
               /\ UNCHANGED intr_client
          ELSE /\ intr_client = "open"
               /\ intr_client' = "dead"
               /\ UNCHANGED ctrl_client
    /\ Out(Op("peer_disconnect", ch, << >>, << >>), << >>, << >>, << >>, "none")
    /\ UNCHANGED <<bleVars, gattVars, sockVars, connected, target_address, setupVars,
                   acceptVars, envVars, argVars, capVars, appVars>>

(***************************************************************************)
(* InputCapture                                                            *)
(***************************************************************************)
\* KEY_CODES: the entries of the keys the model presses.
KEY_CODES ==
    "a" :> 4 @@ "b" :> 5 @@ "c" :> 6 @@ "d" :> 7 @@ "e" :> 8 @@ "f" :> 9 @@
    "g" :> 10 @@ "q" :> 20

MODIFIER_LEFT_CTRL == 1
MODIFIER_LEFT_SHIFT == 2
MODIFIER_LEFT_ALT == 4
MODIFIER_LEFT_GUI == 8
MODIFIER_RIGHT_CTRL == 16
MODIFIER_RIGHT_SHIFT == 32
MODIFIER_RIGHT_ALT == 64
MODIFIER_RIGHT_GUI == 128

MODIFIER_KEYSYMS ==
    "Control_L" :> MODIFIER_LEFT_CTRL @@ "Control_R" :> MODIFIER_RIGHT_CTRL @@
    "Shift_L" :> MODIFIER_LEFT_SHIFT @@ "Shift_R" :> MODIFIER_RIGHT_SHIFT @@
    "Alt_L" :> MODIFIER_LEFT_ALT @@ "Alt_R" :> MODIFIER_RIGHT_ALT @@
    "Super_L" :> MODIFIER_LEFT_GUI @@ "Super_R" :> MODIFIER_RIGHT_GUI @@
    "Meta_L" :> MODIFIER_LEFT_GUI @@ "Meta_R" :> MODIFIER_RIGHT_GUI

\* `self.last_mouse_x = None`: a value no coordinate takes
None == -100000

\* Bit operations on masks; bit is a power of two.
HasBit(m, bit) == (m \div bit) % 2 = 1
OrBit(m, bit) == IF HasBit(m, bit) THEN m ELSE m + bit
AndNotBit(m, bit) == IF HasBit(m, bit) THEN m - bit ELSE m

\* `now - self._last_focus_check < 0.1`: 0.1 s is two ticks of the clock.
ThrottleTicks == 2
\* `self._last_focus_check = 0`, long before any time.time()
NeverChecked == 0 - ThrottleTicks

keysym_to_hid_Fallback(keysym) ==
    IF keysym \in DOMAIN KEY_CODES THEN KEY_CODES[keysym] ELSE 1

\* InputCapture._keysym_to_hid; 0 stands for None, which `if hid_code:` treats
\* alike
keysym_to_hid(keysym) ==
    IF keysym \in DOMAIN KEY_CODES THEN KEY_CODES[keysym] ELSE 0

\* InputCapture._is_modifier
is_modifier(keysym) == keysym \in DOMAIN MODIFIER_KEYSYMS

\* InputCapture._update_modifier, for a modifier keysym
update_modifier(keysym, pressed) ==
    IF pressed THEN OrBit(modifier_state, MODIFIER_KEYSYMS[keysym])
               ELSE AndNotBit(modifier_state, MODIFIER_KEYSYMS[keysym])

check_exit_hotkey_AnySide(keysym) ==
    /\ keysym \in {"q", "Q"}
    /\ HasBit(modifier_state, MODIFIER_LEFT_CTRL) \/ HasBit(modifier_state, MODIFIER_RIGHT_CTRL)
    /\ HasBit(modifier_state, MODIFIER_LEFT_ALT) \/ HasBit(modifier_state, MODIFIER_RIGHT_ALT)

\* InputCapture._check_exit_hotkey
check_exit_hotkey(keysym) ==
    /\ keysym \in {"q", "Q"}
    /\ HasBit(modifier_state, MODIFIER_LEFT_CTRL)
    /\ HasBit(modifier_state, MODIFIER_LEFT_ALT)

\* InputCapture._is_uxplay_focused sends a focus query to the X server unless
\* focus is not required or there is no focus display.
FocusQuerySent == require_focus /\ focus_display # "none"

\* What the query gets: a closed display raises before the server is reached.
FocusAnswer ==
    IF focus_display = "closed" \/ query_raises THEN "error"
    ELSE IF target_focused THEN "focused" ELSE "unfocused"

is_uxplay_focused_FailsClosed == FocusQuerySent /\ FocusAnswer = "focused"

\* InputCapture._is_uxplay_focused: no query, or an exception, counts as
\* focused.
is_uxplay_focused == ~FocusQuerySent \/ FocusAnswer \in {"focused", "error"}

\* The answers n calls of _is_uxplay_focused get in one step.
QueryLog(n) == IF FocusQuerySent THEN [i \in 1..n |-> FocusAnswer] ELSE << >>

KeyboardCall(modifier_keys, keys) == [cb |-> "keyboard", args |-> <<modifier_keys, keys>>]
MouseCall(buttons, x, y, wheel) == [cb |-> "mouse", args |-> <<buttons, x, y, wheel>>]

\* The callbacks of InputCapture are IPadRemote.on_keyboard_event and
\* on_mouse_event: run() created the InputCapture (main.py:88-91).
Wired == run_pc \in {"waiting", "stopping", "returned"}

\* `asyncio.run_coroutine_threadsafe(self.hid_profile.send_..._report(...),
\* self.loop)`, once per callback: call_soon_threadsafe appends a callback
\* that will wrap the coroutine in a task to the loop's queue.  n numbers
\* the submissions.
Submissions(calls) ==
    [i \in 1..Len(calls) |->
        [kind |-> "callback", cb |-> calls[i].cb, args |-> calls[i].args,
         n |-> submitted + i]]

\* What a step of InputCapture or of its environment produced.  The callbacks
\* it invoked hand their reports to the event loop when the application
\* registered them.
CapOut(op, calls, qs, msg, exc) ==
    /\ IF Wired /\ run_pc # "returned"
          THEN /\ loop_ready' = loop_ready \o Submissions(calls)
               /\ submitted' = submitted + Len(calls)
          ELSE UNCHANGED <<loop_ready, submitted>>
    /\ UNCHANGED processed
    /\ lastOp' = op
    /\ emitted' = << >>
    /\ wire' = << >>
    /\ printed' = msg
    /\ returned' = << >>
    /\ raised' = exc
    /\ callbacks' = calls
    /\ queries' = qs
    /\ queries_now' = Min(2, queries_now + Len(qs))

\* InputCapture._hide_cursor; ok: the target window is found (or cached) and
\* XDefineCursor succeeds
hide_cursor(ok) ==
    IF cursor_hidden \/ blank_cursor_id = "none"
       THEN UNCHANGED <<cursor_hidden, uxplay_window>>
       ELSE IF ok
       THEN cursor_hidden' = TRUE /\ uxplay_window' = "window"
       ELSE UNCHANGED cursor_hidden /\ uxplay_window' = "none"

show_cursor_KeepsHidden(ok) == UNCHANGED <<cursor_hidden, uxplay_window>>

\* InputCapture._show_cursor; ok: XUndefineCursor succeeds
show_cursor(ok) ==
    IF ~cursor_hidden \/ blank_cursor_id = "none"
       THEN UNCHANGED <<cursor_hidden, uxplay_window>>
       ELSE /\ cursor_hidden' = FALSE
            /\ uxplay_window' = IF ok THEN uxplay_window ELSE "none"

Throttled_Never == FALSE

\* `if now - self._last_focus_check < 0.1: return`
Throttled == now - last_focus_check < ThrottleTicks

\* InputCapture._update_cursor_visibility
update_cursor_visibility(ok) ==
    IF Throttled
       THEN UNCHANGED <<cursor_hidden, last_focus_check, last_focus_state, uxplay_window>>
       ELSE /\ last_focus_check' = now
            /\ IF is_uxplay_focused # last_focus_state
                  THEN /\ last_focus_state' = is_uxplay_focused
                       /\ IF is_uxplay_focused THEN hide_cursor(ok) ELSE show_cursor(ok)
                  ELSE UNCHANGED <<cursor_hidden, last_focus_state, uxplay_window>>

CaptureStartState_CapturesAnyway(cursor_ok, record_ok) ==
    /\ prev_sample' = IF ~capturing THEN << >> ELSE prev_sample
    /\ UNCHANGED held_modifiers
    /\ focus_display' = IF capturing THEN focus_display ELSE "open"
    /\ blank_cursor_id' = IF capturing THEN blank_cursor_id
                           ELSE IF cursor_ok THEN "cursor" ELSE "none"
    /\ capturing' = TRUE
    /\ crashed' = IF ~capturing THEN FALSE ELSE crashed

\* InputCapture.start.  cursor_ok: _init_cursor_hiding gets a blank cursor;
\* record_ok: the X server has the RECORD extension.
CaptureStartState(cursor_ok, record_ok) ==
    /\ prev_sample' = IF ~capturing /\ record_ok THEN << >> ELSE prev_sample
    /\ UNCHANGED held_modifiers
    /\ IF capturing
          THEN UNCHANGED <<focus_display, blank_cursor_id, capturing>>
          ELSE /\ focus_display' = "open"
               /\ blank_cursor_id' = IF cursor_ok THEN "cursor" ELSE "none"
               /\ capturing' = record_ok
    /\ crashed' = IF ~capturing /\ record_ok THEN FALSE ELSE crashed

Capture_start(cursor_ok, record_ok) ==
    LET op == Op("start", "capture", << >>, << >>) IN
    /\ CaptureStartState(cursor_ok, record_ok)
    /\ IF capturing
          THEN CapOut(op, << >>, << >>, "", "none")
          ELSE IF record_ok
                  THEN CapOut(op, << >>, << >>, "Input capture started", "none")
                  ELSE CapOut(op, << >>, << >>, "", "RuntimeError")
    /\ UNCHANGED <<transportVars, appRun, capConfig, capKeys, capMouse, cursor_hidden,
                   last_focus_check, last_focus_state, uxplay_window,
                   reply_left, stale_left, xEnv, now>>

StopReturnsEarly_Never == FALSE

\* `if not self.capturing: return`
StopReturnsEarly == ~capturing

\* The body of InputCapture.stop past its early return: _cleanup_cursor_hiding,
\* the context disabled, the displays closed, the state reset.
StopBody ==
    /\ capturing' = FALSE
    /\ blank_cursor_id' = "none"
    /\ uxplay_window' = "none"
    /\ cursor_hidden' = FALSE
    /\ focus_display' = Closed(focus_display)
    /\ modifier_state' = 0
    /\ pressed_keys' = {}
    /\ mouse_buttons' = 0
    /\ last_mouse_x' = None
    /\ last_mouse_y' = None
    /\ last_focus_state' = FALSE

\* InputCapture.stop called from another thread than the capture thread: the
\* reply the capture thread is processing is not interrupted.
CaptureStopState ==
    /\ UNCHANGED crashed
    /\ IF StopReturnsEarly
          THEN UNCHANGED <<capKeys, capMouse, cursor_hidden, last_focus_state,
                           blank_cursor_id, uxplay_window, capturing, focus_display,
                           reply_left, stale_left>>
          ELSE /\ StopBody
               /\ stale_left' = Min(MaxBatch, stale_left + reply_left)
               /\ reply_left' = 0

Capture_stop ==
    LET op == Op("stop", "capture", << >>, << >>) IN
    /\ CaptureStopState
    /\ CapOut(op, << >>, << >>,
              IF StopReturnsEarly THEN "" ELSE "Input capture stopped", "none")
    /\ UNCHANGED <<transportVars, appRun, capConfig, capHist, last_focus_check, xEnv, now>>

\* A RECORD reply with n events reaches InputCapture._process_event in the
\* capture thread: the cursor visibility is updated, then the events of the
\* reply are processed one by one.
Capture_reply(n, ok) ==
    /\ capturing
    /\ ~crashed
    /\ reply_left = 0
    /\ reply_left' = n
    /\ update_cursor_visibility(ok)
    /\ CapOut(Op("reply", "capture", << >>, <<n>>), << >>,
              IF Throttled THEN << >> ELSE QueryLog(1), "", "none")
    /\ UNCHANGED <<transportVars, appRun, capConfig, capHist, capKeys, capMouse, blank_cursor_id,
                   capturing, focus_display, stale_left, crashed, xEnv, now>>

\* The capture thread ("live") or a thread of a stopped cycle ("stale") has
\* an event of its reply left to process.
HasEvent(src) ==
    /\ IF src = "live" THEN reply_left > 0 ELSE stale_left > 0
    /\ submitted < MaxReports

\* The registered callbacks raise: the ones of the application
\* (main.py:37-51) do when the event loop is closed, because
\* run_coroutine_threadsafe then raises RuntimeError.
CallbackRaises == IF Wired THEN run_pc = "returned" ELSE callback_raises

\* The event being processed invokes a callback and the callback raises.
Crash(calls) == calls # << >> /\ CallbackRaises

\* `print(f"Capture error: {e}")` under `if self.capturing`
CrashMsg(calls) == IF Crash(calls) /\ capturing THEN "Capture error" ELSE ""

\* The loop `while len(data)` moves on to the next event.  crash: the event
\* invoked a callback that raised; _process_event has no handler, so the
\* exception leaves record_enable_context, _capture_loop catches it (lines
\* 507-513) and the thread ends with the rest of its reply unprocessed.
Consume(src, crash) ==
    IF src = "live"
       THEN /\ reply_left' = IF crash THEN 0 ELSE reply_left - 1
            /\ crashed' = (crashed \/ crash)
            /\ UNCHANGED stale_left
       ELSE /\ stale_left' = IF crash THEN 0 ELSE stale_left - 1
            /\ UNCHANGED <<reply_left, crashed>>

RECURSIVE Ascending(_)
Ascending(S) ==
    IF S = {} THEN << >>
    ELSE LET least == CHOOSE x \in S : \A y \in S : x <= y
         IN <<least>> \o Ascending(S \ {least})

Rotation(lst, k) == [i \in 1..Len(lst) |-> lst[((i + k - 1) % Len(lst)) + 1]]

\* `list(self.pressed_keys)`: a set is listed in the order of its hash table,
\* which is not the order of insertion.  The model lists it in ascending
\* order starting from any of its elements.
Listings(S) ==
    IF S = {} THEN {<< >>}
    ELSE {Rotation(Ascending(S), k) : k \in 0..(Cardinality(S) - 1)}

send_keyboard_state_Ungated(modifiers, listing) ==
    <<KeyboardCall(modifiers, SurfacedKeys(listing))>>

\* InputCapture._send_keyboard_state, for the state the event leaves: the
\* callbacks it invokes.
send_keyboard_state(modifiers, listing) ==
    IF is_uxplay_focused
       THEN <<KeyboardCall(modifiers, SurfacedKeys(listing))>>
       ELSE << >>

\* A key event past the hotkey check (lines 429-438 and 443-452).
KeyChange(src, op, keysym, pressed) ==
    LET hid_code == keysym_to_hid(keysym)
        modifiers == IF is_modifier(keysym) THEN update_modifier(keysym, pressed)
                                            ELSE modifier_state
        keys == IF is_modifier(keysym) \/ hid_code = 0 THEN pressed_keys
                ELSE IF pressed THEN pressed_keys \cup {hid_code}
                ELSE pressed_keys \ {hid_code}
        sends == is_modifier(keysym) \/ hid_code # 0
    IN /\ modifier_state' = modifiers
       /\ pressed_keys' = keys
       /\ held_modifiers' = IF ~is_modifier(keysym) THEN held_modifiers
                             ELSE IF pressed THEN held_modifiers \cup {keysym}
                             ELSE held_modifiers \ {keysym}
       /\ \E listing \in Listings(keys) :
             LET calls == IF sends THEN send_keyboard_state(modifiers, listing) ELSE << >>
             IN /\ Consume(src, Crash(calls))
                /\ CapOut(op, calls, IF sends THEN QueryLog(1) ELSE << >>,
                          CrashMsg(calls), "none")
       /\ UNCHANGED <<transportVars, appRun, capConfig, prev_sample, capMouse, capCursor, capturing,
                      focus_display, xEnv, now>>

\* The exit hotkey (lines 424-427): stop() is called in the thread that
\* processes the event and the rest of its reply is dropped.
HotkeyStop(src, op) ==
    /\ IF StopReturnsEarly
          THEN UNCHANGED <<capKeys, capMouse, cursor_hidden, last_focus_state,
                           blank_cursor_id, uxplay_window, capturing, focus_display>>
          ELSE StopBody
    /\ IF src = "live"
          THEN reply_left' = 0 /\ UNCHANGED stale_left
          ELSE reply_left' = 0 /\ stale_left' = reply_left
    /\ UNCHANGED crashed
    /\ CapOut(op, << >>, << >>, "Exit hotkey pressed", "none")
    /\ UNCHANGED <<transportVars, appRun, capConfig, capHist, last_focus_check, xEnv, now>>

\* InputCapture._process_event, one KeyPress event
Capture_KeyPress(src, keysym) ==
    LET op == Op("KeyPress", src, <<keysym>>, << >>) IN
    /\ HasEvent(src)
    /\ IF check_exit_hotkey(keysym)
          THEN HotkeyStop(src, op)
          ELSE KeyChange(src, op, keysym, TRUE)

\* InputCapture._process_event, one KeyRelease event
Capture_KeyRelease(src, keysym) ==
    /\ HasEvent(src)
    /\ KeyChange(src, Op("KeyRelease", src, <<keysym>>, << >>), keysym, FALSE)

ButtonBit_SwapsRightMiddle(button) ==
    CASE button = 1 -> 1
      [] button = 2 -> 2
      [] button = 3 -> 4
      [] OTHER -> 0

\* The bit of the button mask a button stands for; 0: none.
ButtonBit_ScrollPersists(button) ==
    CASE button = 1 -> 1
      [] button = 2 -> 4
      [] button = 3 -> 2
      [] button = 4 -> 8
      [] button = 5 -> 16
      [] OTHER -> 0

\* The mask bit of a button: left 0x01, middle 0x04, right 0x02; the
\* scroll buttons 4 and 5 have none.
ButtonBit(button) ==
    CASE button = 1 -> 1
      [] button = 2 -> 4
      [] button = 3 -> 2
      [] OTHER -> 0

\* InputCapture._process_event, one ButtonPress event
Capture_ButtonPress(src, button) ==
    LET buttons == IF ButtonBit(button) = 0 THEN mouse_buttons
                   ELSE OrBit(mouse_buttons, ButtonBit(button))
        wheel == IF button = 4 THEN 3 ELSE IF button = 5 THEN -3 ELSE 0
        calls == IF is_uxplay_focused THEN <<MouseCall(buttons, 0, 0, wheel)>> ELSE << >>
    IN /\ HasEvent(src)
       /\ Consume(src, Crash(calls))
       /\ mouse_buttons' = buttons
       /\ CapOut(Op("ButtonPress", src, << >>, <<button>>), calls, QueryLog(1),
                 CrashMsg(calls), "none")
       /\ UNCHANGED <<transportVars, appRun, capConfig, capHist, capKeys, last_mouse_x, last_mouse_y,
                      capCursor, capturing, focus_display, xEnv, now>>

\* InputCapture._process_event, one ButtonRelease event
Capture_ButtonRelease(src, button) ==
    LET buttons == IF ButtonBit(button) = 0 THEN mouse_buttons
                   ELSE AndNotBit(mouse_buttons, ButtonBit(button))
        reports == button \notin {4, 5}
        calls == IF reports /\ is_uxplay_focused THEN <<MouseCall(buttons, 0, 0, 0)>>
                                                 ELSE << >>
    IN /\ HasEvent(src)
       /\ Consume(src, Crash(calls))
       /\ mouse_buttons' = buttons
       /\ CapOut(Op("ButtonRelease", src, << >>, <<button>>), calls,
                 IF reports THEN QueryLog(1) ELSE << >>, CrashMsg(calls), "none")
       /\ UNCHANGED <<transportVars, appRun, capConfig, capHist, capKeys, last_mouse_x, last_mouse_y,
                      capCursor, capturing, focus_display, xEnv, now>>

\* `rx <= x < rx + rw and ry <= y < ry + rh`
InRegion(x, y) ==
    LET rx == capture_region[1]
        ry == capture_region[2]
        rw == capture_region[3]
        rh == capture_region[4]
    IN rx <= x /\ x < rx + rw /\ ry <= y /\ y < ry + rh

BaselineSet_Always == TRUE

\* `if self.last_mouse_x is not None`
BaselineSet == last_mouse_x # None

\* InputCapture._process_event, one MotionNotify event
Capture_MotionNotify(src, x, y) ==
    LET op == Op("MotionNotify", src, << >>, <<x, y>>)
        dx == x - last_mouse_x
        dy == y - last_mouse_y
        moved == BaselineSet /\ (dx # 0 \/ dy # 0)
        outside == capture_region # << >> /\ ~InRegion(x, y)
        calls == IF ~outside /\ moved /\ is_uxplay_focused
                    THEN <<MouseCall(mouse_buttons, dx, dy, 0)>> ELSE << >>
    IN /\ HasEvent(src)
       /\ Consume(src, Crash(calls))
       /\ prev_sample' = <<x, y>>
       /\ UNCHANGED held_modifiers
       /\ IF outside
             THEN /\ UNCHANGED <<last_mouse_x, last_mouse_y>>
                  /\ CapOut(op, << >>, << >>, "", "none")
             ELSE /\ IF Crash(calls)
                        THEN UNCHANGED <<last_mouse_x, last_mouse_y>>
                        ELSE last_mouse_x' = x /\ last_mouse_y' = y
                  /\ CapOut(op, calls, IF moved THEN QueryLog(1) ELSE << >>,
                            CrashMsg(calls), "none")
       /\ UNCHANGED <<transportVars, appRun, capConfig, capKeys, mouse_buttons, capCursor,
                      capturing, focus_display, xEnv, now>>

\* The clock advances by one tick.
Tick ==
    /\ now < MaxTime
    /\ now' = now + 1
    /\ lastOp' = Op("tick", "", << >>, << >>)
    /\ emitted' = << >> /\ wire' = << >> /\ printed' = "" /\ returned' = << >>
    /\ raised' = "none" /\ callbacks' = << >> /\ queries' = << >>
    /\ queries_now' = 0
    /\ UNCHANGED <<transportVars, appRun, appLoop, capConfig, capHist, capKeys, capMouse, capCursor, capRun,
                   xEnv>>

\* The input focus moves to the target window or away from it.
X_focus(focused) ==
    /\ focused # target_focused
    /\ target_focused' = focused
    /\ CapOut(Op("focus", "", << >>, << >>), << >>, << >>, "", "none")
    /\ UNCHANGED <<transportVars, appRun, capConfig, capHist, capKeys, capMouse, capCursor, capRun,
                   query_raises, callback_raises, now>>

\* The X server starts or stops failing the focus query.
X_query(raises) ==
    /\ raises # query_raises
    /\ query_raises' = raises
    /\ CapOut(Op("query", "", << >>, << >>), << >>, << >>, "", "none")
    /\ UNCHANGED <<transportVars, appRun, capConfig, capHist, capKeys, capMouse, capCursor, capRun,
                   target_focused, callback_raises, now>>

\* The registered callbacks start or stop raising.
X_callback(raises) ==
    /\ raises # callback_raises
    /\ callback_raises' = raises
    /\ CapOut(Op("callback", "", << >>, << >>), << >>, << >>, "", "none")
    /\ UNCHANGED <<transportVars, appRun, capConfig, capHist, capKeys, capMouse, capCursor, capRun,
                   target_focused, query_raises, now>>

(***************************************************************************)
(* IPadRemote (main.py) and the asyncio event loop it runs on              *)
(***************************************************************************)
AppOp(name) == Op(name, "app", << >>, << >>)

\* IPadRemote.run up to and including `await self.hid_profile.start()`
\* (lines 55-68).  An exception of start() is printed by the handler at
\* lines 100-103; `finally` then calls stop(), which returns at once because
\* running is still false, and run() returns.
App_run_start(adapter) ==
    /\ run_pc = "idle"
    /\ BleStartState(adapter)
    /\ run_pc' = IF BleStartError(adapter) = "none" THEN "started" ELSE "returned"
    /\ OutPrinted(AppOp("run"), << >>, << >>, << >>, "none",
                  IF BleStartError(adapter) = "none" THEN "READY FOR PAIRING" ELSE "ERROR")
    /\ UNCHANGED <<btVars, argVars, capVars, running, appLoop>>

\* IPadRemote.run, lines 88-94: the InputCapture is created with the two
\* callbacks, running is set and capture is started.  A RuntimeError of
\* InputCapture.start is printed by the handler at lines 100-103 and run()
\* goes on to `finally`.
App_run_capture(cursor_ok, record_ok) ==
    /\ run_pc = "started"
    /\ running' = TRUE
    /\ CaptureStartState(cursor_ok, record_ok)
    /\ run_pc' = IF record_ok THEN "waiting" ELSE "stopping"
    /\ CapOut(AppOp("run"), << >>, << >>,
              IF record_ok THEN "Input capture started" ELSE "ERROR", "none")
    /\ UNCHANGED <<transportVars, capConfig, capKeys, capMouse, cursor_hidden,
                   last_focus_check, last_focus_state, uxplay_window,
                   reply_left, stale_left, xEnv, now>>

\* The handler main.py installs for SIGINT and SIGTERM (lines 125-130).
App_signal ==
    /\ run_pc = "waiting"
    /\ running
    /\ running' = FALSE
    /\ OutPrinted(AppOp("signal"), << >>, << >>, << >>, "none", "Received signal")
    /\ UNCHANGED <<transportVars, capVars, run_pc, appLoop>>

\* `while self.running: await asyncio.sleep(0.1)` (lines 97-98) finds
\* running false and run() goes on to `finally`.
App_wait_ends ==
    /\ run_pc = "waiting"
    /\ ~running
    /\ run_pc' = "stopping"
    /\ Out(AppOp("wait"), << >>, << >>, << >>, "none")
    /\ UNCHANGED <<transportVars, capVars, running, appLoop>>

\* `finally: await self.stop()` (line 105) with IPadRemote.stop (lines
\* 107-121): nothing when running is false; otherwise running is cleared,
\* InputCapture.stop() is called from the loop's thread and the transport is
\* stopped.  run() returns and asyncio.run closes the loop.
App_stop ==
    /\ run_pc = "stopping"
    /\ run_pc' = "returned"
    /\ running' = FALSE
    /\ IF ~running
          THEN /\ UNCHANGED <<bleVars, capKeys, capMouse, cursor_hidden, last_focus_state,
                              blank_cursor_id, uxplay_window, capturing, focus_display,
                              reply_left, stale_left, crashed>>
               /\ CapOut(AppOp("stop"), << >>, << >>, "", "none")
          ELSE /\ CaptureStopState
               /\ BleStopState
               /\ UNCHANGED hid_service
               /\ CapOut(AppOp("stop"), << >>, << >>, "Goodbye!", "none")
    /\ UNCHANGED <<gattVars, btVars, argVars, capConfig, capHist, last_focus_check,
                   xEnv, now>>

Popped_Newest(q) == [head |-> q[Len(q)], rest |-> SubSeq(q, 1, Len(q) - 1)]

\* The loop runs its ready callbacks oldest first (the queue that
\* call_soon_threadsafe and call_soon append to).
Popped(q) == [head |-> Head(q), rest |-> Tail(q)]

\* The loop is running: run() is suspended in `await asyncio.sleep(0.1)`.
LoopRuns == run_pc = "waiting"

\* The loop runs the callback run_coroutine_threadsafe queued (main.py:40-43,
\* 48-51): the coroutine is wrapped in a task, whose first step is appended
\* to the queue.
Loop_callback ==
    LET e == Popped(loop_ready).head IN
    /\ LoopRuns
    /\ loop_ready # << >>
    /\ e.kind = "callback"
    /\ loop_ready' = Append(Popped(loop_ready).rest, [e EXCEPT !.kind = "step"])
    /\ Out(Op("create_task", e.cb, << >>, <<e.n>>), << >>, << >>, << >>, "none")
    /\ UNCHANGED <<transportVars, capVars, appRun, submitted, processed>>

\* The loop runs the step of such a task: send_keyboard_report or
\* send_mouse_report has no suspension point and runs to its end.
Loop_step ==
    LET e == Popped(loop_ready).head IN
    /\ LoopRuns
    /\ loop_ready # << >>
    /\ e.kind = "step"
    /\ loop_ready' = Popped(loop_ready).rest
    /\ processed' = Append(processed, [cb |-> e.cb, n |-> e.n])
    /\ IF e.cb = "keyboard"
          THEN BleSendKeyboard(Op("send_keyboard_report", "keyboard_report",
                                  e.args[2], <<e.args[1]>>),
                               e.args[1], e.args[2])
          ELSE BleSendMouse(Op("send_mouse_report", "mouse_report", << >>, e.args),
                            e.args[1], e.args[2], e.args[3], e.args[4])
    /\ UNCHANGED <<bleVars, notifying, cccd_value, btVars, argVars, capVars, appRun,
                   submitted>>

(***************************************************************************)
(* Initial states                                                          *)
(***************************************************************************)
\* BLEHIDProfile.__init__; the tree does not exist yet and is described by
\* the values its constructors give it.
InitBle ==
    /\ hid_service = FALSE
    /\ ble_connected = FALSE
    /\ mainloop = "none"
    /\ app_reg = "none"
    /\ adv_reg = "none"
    /\ chrc_value = InitialChrcValue
    /\ notifying = InitialNotifying
    /\ cccd_value = InitialCccdValue

\* HIDProfile.__init__
InitBt ==
    /\ ctrl_sock = "none"
    /\ intr_sock = "none"
    /\ ctrl_client = "none"
    /\ intr_client = "none"
    /\ connected = FALSE
    /\ target_address = "none"
    /\ setup_pc = "idle"
    /\ attempt = 0
    /\ attempts_made = 0
    /\ setup_result = "none"
    /\ accept_pc = "idle"
    /\ ctrl_connected = FALSE
    /\ intr_connected = FALSE
    /\ busy = 0
    /\ busy_at_call = 0
    /\ ctrl_pending = FALSE
    /\ intr_pending = FALSE

InitArgs ==
    /\ arg_modifier = 0
    /\ arg_keys = << >>
    /\ arg_buttons = 0
    /\ arg_x = 0
    /\ arg_y = 0
    /\ arg_wheel = 0

\* InputCapture.__init__ with the defaults main.py uses (no capture region,
\* focus required), before any input event.
InitCapture ==
    /\ require_focus = TRUE
    /\ capture_region = << >>
    /\ capturing = FALSE
    /\ focus_display = "none"
    /\ modifier_state = 0
    /\ pressed_keys = {}
    /\ mouse_buttons = 0
    /\ last_mouse_x = None
    /\ last_mouse_y = None
    /\ cursor_hidden = FALSE
    /\ last_focus_check = NeverChecked
    /\ last_focus_state = FALSE
    /\ blank_cursor_id = "none"
    /\ uxplay_window = "none"
    /\ reply_left = 0
    /\ stale_left = 0
    /\ crashed = FALSE
    /\ target_focused = FALSE
    /\ query_raises = FALSE
    /\ callback_raises = FALSE
    /\ now = 0
    /\ queries_now = 0
    /\ prev_sample = << >>
    /\ held_modifiers = {}

\* IPadRemote.__init__; nothing was handed to the loop yet.
InitApp ==
    /\ running = FALSE
    /\ run_pc = "idle"
    /\ loop_ready = << >>
    /\ submitted = 0
    /\ processed = << >>

InitOut ==
    /\ lastOp = Op("init", "", << >>, << >>)
    /\ emitted = << >>
    /\ wire = << >>
    /\ printed = ""
    /\ returned = << >>
    /\ raised = "none"
    /\ callbacks = << >>
    /\ queries = << >>

(***************************************************************************)
(* SpecNotify: the report characteristics, their CCCDs and the report path *)
(* of BLEHIDProfile.                                                       *)
(***************************************************************************)
\* What the peer writes to a CCCD or to a report characteristic here.
CccdWrites == {<< >>, <<1, 0>>, <<2, 0>>}
ChrcWrites == {<<7>>}
\* Values handed to Characteristic.notify directly.
NotifyValues == {<<1, 0, 9, 0, 0, 0, 0, 0>>}
\* Arguments of send_keyboard_report and send_mouse_report.
KeyboardArgs == {[m |-> 2, ks |-> <<4, 5>>]}
MouseArgs == {[b |-> 1, x |-> 200, y |-> -3, w |-> 3]}

InitNotify == InitBle /\ InitBt /\ InitArgs /\ InitCapture /\ InitApp /\ InitOut

NextNotify ==
    \/ \E adapter \in BOOLEAN : BLE_start(adapter)
    \/ BLE_stop
    \/ \E c \in ReportChrcs, value \in CccdWrites : CCCD_WriteValue(c, value)
    \/ \E c \in ReportChrcs : StartNotify(c)
    \/ \E c \in ReportChrcs : StopNotify(c)
    \/ \E c \in ReportChrcs : Chrc_ReadValue(c)
    \/ \E c \in ReportChrcs, value \in ChrcWrites : Chrc_WriteValue(c, value)
    \/ \E c \in ReportChrcs, v \in NotifyValues : Chrc_notify(c, v)
    \/ \E a \in KeyboardArgs : BLE_send_keyboard_report(a.m, a.ks)
    \/ \E a \in MouseArgs : BLE_send_mouse_report(a.b, a.x, a.y, a.w)

SpecNotify == InitNotify /\ [][NextNotify]_vars

(***************************************************************************)
(* SpecWrite: every attribute a peer may write, with every value of        *)
(* PeerWrites.                                                             *)
(***************************************************************************)
WritableChrcs == {c \in Chrcs : Writable(c)}

NextWrite ==
    \/ \E adapter \in BOOLEAN : BLE_start(adapter)
    \/ BLE_stop
    \/ \E c \in WritableChrcs, value \in PeerWrites : Chrc_WriteValue(c, value)
    \/ \E c \in ReportChrcs, value \in PeerWrites : CCCD_WriteValue(c, value)
    \/ \E c \in Chrcs : Chrc_ReadValue(c)

SpecWrite == InitNotify /\ [][NextWrite]_vars

(***************************************************************************)
(* Claims about the GATT transport                                         *)
(***************************************************************************)
ReportOps == {"notify", "send_keyboard_report", "send_mouse_report"}
SubscriptionOps == {"CCCD.WriteValue", "StartNotify", "StopNotify"}

\* C1: for each report characteristic, a CCCD write with bit 0 of byte 0 set
\* makes it notifying and one with bit 0 clear makes it not notifying; a
\* notify(v) on a notifying characteristic stores v and emits exactly one
\* signal carrying v, on a characteristic that is not notifying it emits
\* nothing and raises nothing; so notify(v) right after a CCCD write delivers
\* v exactly when the written byte 0 had bit 0 set.
C1_CccdGatesNotify ==
    [][\A c \in ReportChrcs :
        /\ (lastOp'.op = "CCCD.WriteValue" /\ lastOp'.on = c /\ lastOp'.data # << >>)
              => notifying'[c] = (lastOp'.data[1] % 2 = 1)
        /\ (lastOp'.op = "notify" /\ lastOp'.on = c /\ notifying[c])
              => /\ chrc_value'[c] = lastOp'.data
                 /\ emitted' = <<[chrc |-> c, value |-> lastOp'.data]>>
                 /\ raised' = "none"
        /\ (lastOp'.op = "notify" /\ lastOp'.on = c /\ ~notifying[c])
              => emitted' = << >> /\ raised' = "none"
        /\ (/\ lastOp.op = "CCCD.WriteValue" /\ lastOp.on = c /\ lastOp.data # << >>
            /\ lastOp'.op = "notify" /\ lastOp'.on = c)
              => IF lastOp.data[1] % 2 = 1
                    THEN /\ chrc_value'[c] = lastOp'.data
                         /\ emitted' = <<[chrc |-> c, value |-> lastOp'.data]>>
                         /\ raised' = "none"
                    ELSE emitted' = << >> /\ raised' = "none"
      ]_vars

\* A notify(v) delivered v on a characteristic whose CCCD holds a value with
\* bit 0 set.
C1_Witness ==
    /\ lastOp.op = "notify"
    /\ lastOp.on \in ReportChrcs
    /\ emitted = <<[chrc |-> lastOp.on, value |-> lastOp.data]>>
    /\ chrc_value[lastOp.on] = lastOp.data
    /\ cccd_value[lastOp.on] # << >>
    /\ cccd_value[lastOp.on][1] % 2 = 1

\* C2: a report handed to notify / send_keyboard_report / send_mouse_report
\* while its characteristic is not notifying changes nothing and emits
\* nothing; and every signal is emitted by the very step that submits its
\* value to a notifying characteristic, so no other step (a later
\* subscription included) ever signals a report that was dropped.
C2_DroppedNeverQueued ==
    [][/\ \A c \in ReportChrcs :
            (lastOp'.op \in ReportOps /\ lastOp'.on = c /\ ~notifying[c])
               => /\ UNCHANGED <<chrc_value, notifying, cccd_value, bleVars>>
                  /\ emitted' = << >>
                  /\ raised' = "none"
       /\ emitted' # << >>
            => /\ lastOp'.op \in ReportOps
               /\ lastOp'.on \in ReportChrcs
               /\ notifying[lastOp'.on]
               /\ emitted' = <<[chrc |-> lastOp'.on, value |-> chrc_value'[lastOp'.on]]>>
               /\ lastOp'.op = "notify" => chrc_value'[lastOp'.on] = lastOp'.data
      ]_vars

\* send_keyboard_report on a started, connected profile whose keyboard
\* characteristic is not notifying: the report was dropped.
C2_Witness ==
    /\ lastOp.op = "send_keyboard_report"
    /\ hid_service
    /\ ble_connected
    /\ ~notifying["keyboard_report"]
    /\ emitted = << >>
    /\ chrc_value["keyboard_report"] # <<lastOp.ints[1], 0>> \o SubSeq(lastOp.data \o Zeros(6), 1, 6)

\* C3: the notifying flag of a report characteristic changes only in a step
\* that is a write to its own CCCD or a StartNotify / StopNotify on it.
C3_NotifyStateFrame ==
    [][\A c \in ReportChrcs :
          notifying'[c] # notifying[c]
             => lastOp'.on = c /\ lastOp'.op \in SubscriptionOps
      ]_vars

\* stop() ran on a profile with exactly one of the two characteristics
\* notifying, and both flags are as they were.
C3_Witness ==
    /\ lastOp.op = "stop"
    /\ notifying["keyboard_report"]
    /\ ~notifying["mouse_report"]

\* C4: every write of a peer, to a writable characteristic or to a CCCD,
\* completes without an error and leaves the written value stored.
C4_WriteAcceptsAnyValue ==
    /\ lastOp.op = "WriteValue"
          => raised = "none" /\ chrc_value[lastOp.on] = lastOp.data
    /\ lastOp.op = "CCCD.WriteValue"
          => raised = "none" /\ cccd_value[lastOp.on] = lastOp.data

(***************************************************************************)
(* SpecClassic: the classic transport and its peer.                        *)
(***************************************************************************)
Channels == {"ctrl", "intr"}

NextClassic ==
    \/ BT_setup_sockets
    \/ BT_setup_attempt_in_use
    \/ BT_setup_attempt_bound
    \/ \E at \in Channels : BT_setup_attempt_oserror(at)
    \/ BT_accept_connections
    \/ BT_accept_ctrl
    \/ BT_accept_intr
    \/ BT_accept_test
    \/ BT_accept_interrupted
    \/ \E a \in KeyboardArgs : BT_send_keyboard_report(a.m, a.ks)
    \/ \E a \in MouseArgs : BT_send_mouse_report(a.b, a.x, a.y, a.w)
    \/ BT_close
    \/ \E ch \in Channels : Peer_connect(ch)
    \/ \E ch \in Channels : Peer_disconnect(ch)

SpecClassic == InitNotify /\ [][NextClassic]_vars

(***************************************************************************)
(* Claims about the classic transport                                      *)
(***************************************************************************)
BtSendOps == {"send_keyboard_report", "send_mouse_report"}

\* C5: within accept_connections the interrupt channel is accepted only when
\* the control channel has already been accepted by the same call (a peer
\* connection waiting on the interrupt socket is left in the backlog until
\* then), and connected becomes true only in the step after the loop, with
\* both channels accepted.
C5_ControlThenInterrupt ==
    /\ [](intr_connected => ctrl_connected)
    /\ [][/\ (intr_connected' /\ ~intr_connected)
                => /\ ctrl_connected
                   /\ ctrl_client = "open" \/ ctrl_client = "dead"
                   /\ intr_client' = "open"
          /\ (intr_pending /\ ~intr_pending' /\ intr_sock' = "listening")
                => ctrl_connected /\ intr_connected'
          /\ (connected' /\ ~connected)
                => /\ lastOp'.op = "accept_connections"
                   /\ ctrl_connected /\ intr_connected
                   /\ ctrl_client # "none" /\ intr_client # "none"
         ]_vars

\* accept_connections has returned: both channels accepted, connected set.
C5_Witness ==
    /\ lastOp = Op("accept_connections", "done", << >>, << >>)
    /\ connected
    /\ ctrl_connected /\ intr_connected
    /\ ctrl_client = "open" /\ intr_client = "open"

\* C6: connected implies that a control client and an interrupt client have
\* been accepted; a frame is written to the interrupt channel only by a send
\* on a connected transport, and a send on a transport that is not connected
\* writes nothing.
C6_ReportsOnlyWhenConnected ==
    /\ connected => ctrl_client # "none" /\ intr_client # "none"
    /\ wire # << >> => connected /\ intr_client = "open" /\ lastOp.op \in BtSendOps
    /\ (lastOp.op \in BtSendOps /\ ~connected) => wire = << >>

\* A send in the Partial state (control accepted, interrupt not): nothing
\* was written.
C6_Witness ==
    /\ lastOp.op \in BtSendOps
    /\ ctrl_client = "open"
    /\ intr_client = "none"
    /\ ~connected
    /\ wire = << >>

\* C7: a send never raises to its caller; a send on a connected transport
\* either writes its frame and stays connected or fails, writes nothing and
\* leaves the transport disconnected; a send on a disconnected transport
\* changes nothing and writes nothing; and connected goes from false to true
\* only at the end of accept_connections, never in a send.
C7_SendFailureDisconnects ==
    [][/\ lastOp'.op \in BtSendOps
            => /\ raised' = "none"
               /\ connected
                    => \/ wire' # << >> /\ connected' /\ printed' = ""
                       \/ wire' = << >> /\ ~connected' /\ printed' = "Failed to send"
               /\ ~connected
                    => /\ wire' = << >>
                       /\ printed' = ""
                       /\ UNCHANGED btVars
               /\ connected' => connected
       /\ (connected' /\ ~connected) => lastOp'.op = "accept_connections"
      ]_vars

\* A send has just failed on a transport whose interrupt channel the peer
\* dropped: the failure was printed and the transport is disconnected.
C7_Witness ==
    /\ lastOp.op \in BtSendOps
    /\ printed = "Failed to send"
    /\ intr_client = "dead"
    /\ ~connected
    /\ raised = "none"

\* C8: with N the number of bind attempts that find the address in use,
\* setup_sockets makes at most max_retries attempts; when it returns, N is
\* below max_retries, it made N + 1 attempts and both sockets are listening;
\* when it raises the fatal error, N is at least max_retries, it made exactly
\* max_retries attempts and the error carries the remediation text; and a
\* call that met no other error ends in the first way when N < max_retries
\* and in the second when N >= max_retries.
C8_BindRetryBudget ==
    /\ attempts_made <= 5
    /\ setup_result = "returned"
          => /\ busy_at_call < 5
             /\ attempts_made = busy_at_call + 1
             /\ lastOp.op = "setup_sockets"
                   => ctrl_sock = "listening" /\ intr_sock = "listening"
    /\ setup_result = "fatal"
          => /\ busy_at_call >= 5
             /\ attempts_made = 5
             /\ lastOp.op = "setup_sockets" => raised = Remediation
    /\ (lastOp.op = "setup_sockets" /\ setup_pc = "idle" /\ setup_result # "oserror")
          => setup_result = IF busy_at_call < 5 THEN "returned" ELSE "fatal"

\* setup_sockets returned on its fifth attempt after four failures.
C8_Witness ==
    /\ lastOp.op = "setup_sockets"
    /\ setup_result = "returned"
    /\ busy_at_call = 4
    /\ attempts_made = 5
    /\ ctrl_sock = "listening" /\ intr_sock = "listening"

(***************************************************************************)
(* SpecCodec: the keyboard report of both transports, for every input of   *)
(* ModifierMasks x KeyLists, on transports that are ready to deliver: the  *)
(* GATT profile started with both report characteristics subscribed, the   *)
(* classic transport connected.                                            *)
(***************************************************************************)
ModifierMasks == {0, 1, 5, 128, 255}
KeyAlphabet == {4, 29}

\* A sequence of pairwise distinct key codes (HID usages of letters).
DistinctKey(i) == 4 + ((i * 5) % 26)

\* Deltas around both clamping limits, around zero, and far outside.
MouseDeltas ==
    ((-MaxDelta)..(3 - MaxDelta)) \cup {-1, 0, 1} \cup ((MaxDelta - 3)..MaxDelta)
        \cup {-300, 300}
ButtonMasks == {0, 5}

KeyLists ==
    UNION {[1..n -> KeyAlphabet] : n \in 0..MaxKeyListLen}
      \cup {[i \in 1..n |-> DistinctKey(s + i)] : n \in 0..MaxKeyListLen, s \in 0..MaxShift}

InitCodec ==
    /\ hid_service = TRUE
    /\ ble_connected = TRUE
    /\ mainloop = "running"
    /\ app_reg = "registered"
    /\ adv_reg = "registered"
    /\ chrc_value = InitialChrcValue
    /\ notifying = [c \in Chrcs |-> c \in ReportChrcs]
    /\ cccd_value = [c \in ReportChrcs |-> <<1, 0>>]
    /\ ctrl_sock = "listening"
    /\ intr_sock = "listening"
    /\ ctrl_client = "open"
    /\ intr_client = "open"
    /\ connected = TRUE
    /\ target_address = "peer"
    /\ setup_pc = "idle"
    /\ attempt = 0
    /\ attempts_made = 1
    /\ setup_result = "returned"
    /\ accept_pc = "idle"
    /\ ctrl_connected = TRUE
    /\ intr_connected = TRUE
    /\ busy = 0
    /\ busy_at_call = 0
    /\ ctrl_pending = FALSE
    /\ intr_pending = FALSE
    /\ \/ /\ arg_modifier \in ModifierMasks
          /\ arg_keys \in KeyLists
          /\ arg_buttons = 0 /\ arg_x = 0 /\ arg_y = 0 /\ arg_wheel = 0
       \/ /\ arg_modifier = 0
          /\ arg_keys = << >>
          /\ arg_buttons \in ButtonMasks
          /\ arg_x \in MouseDeltas
          /\ arg_y \in MouseDeltas
          /\ arg_wheel \in MouseDeltas
    /\ InitCapture
    /\ InitApp /\ InitOut

NextCodec ==
    \/ BLE_send_keyboard_report(arg_modifier, arg_keys)
    \/ BT_send_keyboard_report(arg_modifier, arg_keys)
    \/ Capture_send_keyboard_state(arg_modifier, arg_keys)
    \/ BLE_send_mouse_report(arg_buttons, arg_x, arg_y, arg_wheel)
    \/ BT_send_mouse_report(arg_buttons, arg_x, arg_y, arg_wheel)

SpecCodec == InitCodec /\ [][NextCodec]_vars

(***************************************************************************)
(* Claims about the keyboard report                                        *)
(***************************************************************************)
KeyboardOps == {"send_keyboard_report", "_send_keyboard_state"}

\* The payload delivered by the last step: the value of the signal, or the
\* frame without its two header bytes.
DeliveredPayload ==
    IF lastOp.on = "intr" THEN SubSeq(wire[1], 3, Len(wire[1])) ELSE emitted[1].value

DeliveredOne ==
    IF lastOp.on = "intr"
       THEN Len(wire) = 1 /\ emitted = << >>
       ELSE /\ Len(emitted) = 1 /\ wire = << >>
            /\ emitted[1].chrc = "keyboard_report"
            /\ chrc_value["keyboard_report"] = emitted[1].value

\* C9: for every modifier mask and every key list of at most 6 codes, the
\* keyboard report either transport delivers has a payload of 8 bytes:
\* byte 0 the modifier mask, byte 1 zero, bytes 2..7 the key codes in order,
\* then zeros.
C9_KeyboardPayloadLayout ==
    (lastOp.op \in KeyboardOps /\ Len(arg_keys) <= 6)
       => /\ DeliveredOne
          /\ raised = "none"
          /\ Len(DeliveredPayload) = 8
          /\ DeliveredPayload[1] = arg_modifier
          /\ DeliveredPayload[2] = 0
          /\ \A i \in 1..6 :
                DeliveredPayload[2 + i] = IF i <= Len(arg_keys) THEN arg_keys[i] ELSE 0

\* The classic transport wrote the report of modifier mask 5 and three keys.
C9_Witness ==
    /\ lastOp.op = "send_keyboard_report"
    /\ lastOp.on = "intr"
    /\ arg_modifier = 5
    /\ Len(arg_keys) = 3
    /\ wire = <<(<<161, 1, 5, 0>> \o arg_keys \o <<0, 0, 0>>)>>

\* C10: for every key list of more than 6 codes the keyboard report carries
\* exactly 6 key codes, the first 6 of the list in the order of the list; the
\* others are dropped and nothing is raised.
C10_KeyboardOverflowTruncates ==
    (lastOp.op \in KeyboardOps /\ Len(arg_keys) > 6)
       => /\ DeliveredOne
          /\ raised = "none"
          /\ Len(DeliveredPayload) = 8
          /\ DeliveredPayload[1] = arg_modifier
          /\ \A i \in 1..6 : DeliveredPayload[2 + i] = arg_keys[i]

\* The GATT transport notified a report built from seven distinct keys.
C10_Witness ==
    /\ lastOp.op = "send_keyboard_report"
    /\ lastOp.on = "keyboard_report"
    /\ Len(arg_keys) = 7
    /\ NoDup(arg_keys)
    /\ Len(emitted) = 1
    /\ \A i \in 3..8 : emitted[1].value[i] # arg_keys[7]

(***************************************************************************)
(* Claims about the mouse report and about the two transports' frames      *)
(***************************************************************************)
\* The signed value an unsigned two's-complement byte stands for.
DecodeByte(b) == IF b >= 128 THEN b - 256 ELSE b

\* v limited to -127..127, written out case by case.
Limited(v) == IF v < -127 THEN -127 ELSE IF v > 127 THEN 127 ELSE v

MotionByteOf(b, v) == b \in 0..255 /\ b # 128 /\ DecodeByte(b) = Limited(v)

\* The payload the last step delivered: the value of the signal, or the frame
\* without its two header bytes.
MousePayloadDelivered ==
    IF lastOp.on = "intr" THEN SubSeq(wire[1], 3, Len(wire[1])) ELSE emitted[1].value

\* C11: for all dx, dy, wheel, each of the three motion bytes of the mouse
\* report either transport delivers is clamp(value, -127, 127) as an unsigned
\* two's-complement byte: it lies in 0..255, is never 0x80 and decodes back to
\* the clamped value; clamping a clamped value changes nothing.
C11_MouseClampEncode ==
    /\ lastOp.op = "send_mouse_report"
         => /\ Len(emitted) + Len(wire) = 1
            /\ Len(MousePayloadDelivered) = 4
            /\ MotionByteOf(MousePayloadDelivered[2], arg_x)
            /\ MotionByteOf(MousePayloadDelivered[3], arg_y)
            /\ MotionByteOf(MousePayloadDelivered[4], arg_wheel)
    /\ \A v \in {arg_x, arg_y, arg_wheel} :
            Clamp(v) = Limited(v) /\ Clamp(Clamp(v)) = Clamp(v)

\* The GATT transport notified the report of dx = 300, dy = -1, wheel = -300.
C11_Witness ==
    /\ lastOp.op = "send_mouse_report"
    /\ arg_x = 300 /\ arg_y = -1 /\ arg_wheel = -300
    /\ emitted = <<Signal("mouse_report", <<arg_buttons, 127, 255, 129>>)>>

SameReport(a, b) == a.op = b.op /\ a.data = b.data /\ a.ints = b.ints

\* C12: when the two transports deliver the report of the same inputs one
\* after the other, the classic frame is the header [0xA1, report id]
\* followed by exactly the payload the GATT transport notified, the report id
\* being that of the characteristic's Report Reference descriptor: 1 for the
\* keyboard report, 2 for the mouse report, both of type Input.
C12_ClassicFrameIsHeaderPlusGattPayload ==
    /\ [](ReportReference = [c \in ReportChrcs |->
                                IF c = "keyboard_report" THEN <<1, 1>> ELSE <<2, 1>>])
    /\ [][/\ (/\ lastOp.on \in ReportChrcs /\ emitted # << >>
              /\ lastOp'.on = "intr" /\ wire' # << >>
              /\ SameReport(lastOp, [lastOp' EXCEPT !.on = lastOp.on]))
             => wire' = <<(<<161, ReportReference[lastOp.on][1]>> \o emitted[1].value)>>
          /\ (/\ lastOp.on = "intr" /\ wire # << >>
              /\ lastOp'.on \in ReportChrcs /\ emitted' # << >>
              /\ SameReport(lastOp', [lastOp EXCEPT !.on = lastOp'.on]))
             => wire = <<(<<161, ReportReference[lastOp'.on][1]>> \o emitted'[1].value)>>
       ]_vars

\* The keyboard report of modifier mask 5 and three keys was notified, its
\* payload is the value of the characteristic, and the classic transport has
\* just sent the same report as header plus that payload.
C12_Witness ==
    /\ lastOp.op = "send_keyboard_report"
    /\ lastOp.on = "intr"
    /\ arg_modifier = 5
    /\ Len(arg_keys) = 3
    /\ chrc_value["keyboard_report"] # InitialChrcValue["keyboard_report"]
    /\ wire = <<(<<161, 1>> \o chrc_value["keyboard_report"])>>

(***************************************************************************)
(* SpecGate: InputCapture between start() and stop(), fed every kind of    *)
(* input event while the focus moves and the focus query fails or works.   *)
(***************************************************************************)
Threads == {"live", "stale"}
GateKeysyms == {"a", "Control_L"}
GateButtons == {1, 4}
GateXs == {0, 1}

InitGate ==
    /\ InitBle /\ InitBt /\ InitArgs /\ InitCapture /\ InitApp /\ InitOut

NextGate ==
    \/ \E cursor_ok \in BOOLEAN : Capture_start(cursor_ok, TRUE)
    \/ Capture_stop
    \/ \E n \in 1..MaxBatch, ok \in BOOLEAN : Capture_reply(n, ok)
    \/ \E src \in Threads, keysym \in GateKeysyms : Capture_KeyPress(src, keysym)
    \/ \E src \in Threads, keysym \in GateKeysyms : Capture_KeyRelease(src, keysym)
    \/ \E src \in Threads, button \in GateButtons : Capture_ButtonPress(src, button)
    \/ \E src \in Threads, button \in GateButtons : Capture_ButtonRelease(src, button)
    \/ \E src \in Threads, x \in GateXs : Capture_MotionNotify(src, x, 0)
    \/ \E focused \in BOOLEAN : X_focus(focused)
    \/ \E raises \in BOOLEAN : X_query(raises)

SpecGate == InitGate /\ [][NextGate]_vars

(***************************************************************************)
(* Claims about focus gating                                               *)
(***************************************************************************)
EventOps == {"KeyPress", "KeyRelease", "ButtonPress", "ButtonRelease", "MotionNotify"}

\* C13 as stated: with focus gating required, while the target window does
\* not hold focus no keyboard or mouse callback fires for any event.
C13_NoCallbackWhileUnfocused ==
    (require_focus /\ lastOp.op \in EventOps /\ ~target_focused) => callbacks = << >>

\* C13, amended: with focus gating required, an event for which the focus
\* query answers that the target window does not hold focus fires no
\* callback; a callback fires only when the query answered "focused" or
\* raised.
C13_NoCallbackWhenQueryAnswersUnfocused ==
    (require_focus /\ lastOp.op \in EventOps)
       => /\ (\E i \in 1..Len(queries) : queries[i] = "unfocused") => callbacks = << >>
          /\ callbacks # << >> => queries # << >>

\* A key was pressed while the query answered "unfocused": the key is in the
\* pressed-key set and no callback fired.
C13_Witness ==
    /\ require_focus
    /\ lastOp.op = "KeyPress"
    /\ queries = <<"unfocused">>
    /\ pressed_keys = {4}
    /\ callbacks = << >>

(***************************************************************************)
(* SpecCursor: the throttled focus check and the cursor-visibility state   *)
(* machine, with the clock.                                                *)
(***************************************************************************)
NextCursor ==
    \/ \E cursor_ok \in BOOLEAN : Capture_start(cursor_ok, TRUE)
    \/ Capture_stop
    \/ \E n \in 1..MaxBatch, ok \in BOOLEAN : Capture_reply(n, ok)
    \/ \E src \in Threads : Capture_KeyPress(src, "a")
    \/ \E focused \in BOOLEAN : X_focus(focused)
    \/ \E raises \in BOOLEAN : X_query(raises)
    \/ Tick

SpecCursor == InitGate /\ [][NextCursor]_vars

FocusGained == last_focus_state' /\ ~last_focus_state
FocusLost == ~last_focus_state' /\ last_focus_state

\* C14 as stated: each focus transition flips the cursor-hidden state exactly
\* once: on focus gained cursor_hidden goes from false to true, on focus lost
\* from true to false, and it does not change between transitions.
C14_EachTransitionFlipsCursor ==
    [][/\ FocusGained => (~cursor_hidden /\ cursor_hidden')
       /\ FocusLost => (cursor_hidden /\ ~cursor_hidden')
       /\ (last_focus_state' = last_focus_state) => (cursor_hidden' = cursor_hidden)
      ]_vars

\* C14, amended: cursor_hidden changes only at an observed focus transition
\* and at most once per transition.  It goes from false to true only when
\* the throttled check at the start of a reply sees the focus gained and the
\* blank cursor is available, and it does so whenever the target window is
\* then found; it goes from true to false only when the focus is seen lost
\* or capture stops, and is false after either; it does not change otherwise.
C14_CursorFollowsObservedFocus ==
    [][/\ (cursor_hidden' /\ ~cursor_hidden)
             => (FocusGained /\ lastOp'.op = "reply" /\ blank_cursor_id = "cursor")
       /\ (FocusGained /\ blank_cursor_id = "cursor" /\ uxplay_window' = "window")
             => cursor_hidden'
       /\ (~cursor_hidden' /\ cursor_hidden) => FocusLost
       /\ FocusLost => ~cursor_hidden'
       /\ (last_focus_state' = last_focus_state) => (cursor_hidden' = cursor_hidden)
      ]_vars

\* The throttled check saw the focus gained and hid the cursor.
C14_Witness ==
    /\ lastOp.op = "reply"
    /\ queries = <<"focused">>
    /\ last_focus_state
    /\ cursor_hidden
    /\ uxplay_window = "window"

\* C15: the focus state is queried at most once per 100 ms and not once per
\* event: while the clock has not advanced (so inside one 100 ms window) at
\* most one focus query is sent.
C15_OneFocusQueryPerWindow == queries_now <= 1

(***************************************************************************)
(* SpecHotkey: the exit hotkey and stop(), with stop() also called from    *)
(* another thread while the capture thread works through a reply.          *)
(***************************************************************************)
HotkeyKeysyms == {"Control_L", "Alt_L", "Alt_R", "q"}

NextHotkey ==
    \/ \E cursor_ok \in BOOLEAN : Capture_start(cursor_ok, TRUE)
    \/ Capture_stop
    \/ \E n \in 1..MaxBatch, ok \in BOOLEAN : Capture_reply(n, ok)
    \/ \E src \in Threads, keysym \in HotkeyKeysyms : Capture_KeyPress(src, keysym)
    \/ \E src \in Threads, keysym \in HotkeyKeysyms : Capture_KeyRelease(src, keysym)
    \/ \E src \in Threads : Capture_ButtonPress(src, 1)
    \/ \E src \in Threads : Capture_MotionNotify(src, 1, 0)
    \/ \E focused \in BOOLEAN : X_focus(focused)

SpecHotkey == InitGate /\ [][NextHotkey]_vars

CtrlHeld ==
    HasBit(modifier_state, MODIFIER_LEFT_CTRL) \/ HasBit(modifier_state, MODIFIER_RIGHT_CTRL)
AltHeld ==
    HasBit(modifier_state, MODIFIER_LEFT_ALT) \/ HasBit(modifier_state, MODIFIER_RIGHT_ALT)

\* C16: whenever a ctrl key and an alt key are both held and 'q' is pressed,
\* capture stops, whether or not the target window holds focus; the press is
\* not added to the pressed-key set and produces no keyboard report.
C16_HotkeyStopsCapture ==
    [][(/\ lastOp'.op = "KeyPress"
        /\ lastOp'.data = <<"q">>
        /\ CtrlHeld /\ AltHeld)
          => (/\ ~capturing'
              /\ KEY_CODES["q"] \notin pressed_keys'
              /\ callbacks' = << >>)
      ]_vars

\* The transient state of InputCapture is zero.
TransientStateZero ==
    /\ modifier_state = 0
    /\ pressed_keys = {}
    /\ mouse_buttons = 0
    /\ last_mouse_x = None
    /\ last_mouse_y = None
    /\ ~cursor_hidden
    /\ ~last_focus_state

\* C17: after capture stops (by hotkey or by stop()) and until the next
\* start(), the transient state is zero (modifier mask, pressed-key set,
\* button mask, pointer baseline, cursor-hidden, last focus state) and no
\* keyboard or mouse callback fires.
C17_StoppedMeansZeroAndSilent ==
    ~capturing => (TransientStateZero /\ callbacks = << >>)

\* C18: stop() is idempotent: called when capture is already stopped or was
\* never started it changes no state and invokes no callback, so stop();
\* stop() leaves the state a single stop() leaves.
C18_StopIdempotent ==
    [][(lastOp'.op = "stop" /\ lastOp'.on = "capture" /\ ~capturing)
          => (/\ UNCHANGED <<capVars, transportVars, appVars>>
              /\ callbacks' = << >>
              /\ printed' = ""
              /\ raised' = "none")
      ]_vars

\* stop() was called a second time after capture had stopped and its displays
\* were closed; it returned at once.
C18_Witness ==
    /\ lastOp.op = "stop"
    /\ lastOp.on = "capture"
    /\ printed = ""
    /\ ~capturing
    /\ focus_display = "closed"

(***************************************************************************)
(* SpecKeys: key presses and releases of a running capture, up to eight    *)
(* keys held at once.                                                      *)
(***************************************************************************)
LetterKeysyms == {"a", "b", "c", "d", "e", "f", "g", "q"}
KeysKeysyms == LetterKeysyms \cup {"Control_L", "Alt_L"}

\* The state start() leaves, with the target window focused.
InitKeys ==
    /\ InitBle /\ InitBt /\ InitArgs /\ InitApp /\ InitOut
    /\ require_focus = TRUE
    /\ capture_region = << >>
    /\ capturing = TRUE
    /\ focus_display = "open"
    /\ modifier_state = 0
    /\ pressed_keys = {}
    /\ mouse_buttons = 0
    /\ last_mouse_x = None
    /\ last_mouse_y = None
    /\ cursor_hidden = FALSE
    /\ last_focus_check = NeverChecked
    /\ last_focus_state = FALSE
    /\ blank_cursor_id \in {"none", "cursor"}
    /\ uxplay_window = "none"
    /\ reply_left = 0
    /\ stale_left = 0
    /\ crashed = FALSE
    /\ target_focused = TRUE
    /\ query_raises = FALSE
    /\ callback_raises = FALSE
    /\ now = 0
    /\ queries_now = 0
    /\ prev_sample = << >>
    /\ held_modifiers = {}

NextKeys ==
    \/ \E ok \in BOOLEAN : Capture_reply(1, ok)
    \/ \E keysym \in KeysKeysyms : Capture_KeyPress("live", keysym)
    \/ \E keysym \in KeysKeysyms : Capture_KeyRelease("live", keysym)
    \/ \E focused \in BOOLEAN : X_focus(focused)

SpecKeys == InitKeys /\ [][NextKeys]_vars

Range(lst) == {lst[i] : i \in 1..Len(lst)}

\* The last step processed the press or release of a mapped non-modifier key
\* while the target window held the focus and the focus query worked.
MappedKeyEvent(kind) ==
    /\ lastOp.op = kind
    /\ lastOp.data[1] \in DOMAIN KEY_CODES
    /\ require_focus /\ target_focused /\ ~query_raises

\* The last step fired exactly one keyboard callback carrying the current
\* modifier mask.
OneKeyboardReport ==
    /\ Len(callbacks) = 1
    /\ callbacks[1].cb = "keyboard"
    /\ callbacks[1].args[1] = modifier_state

ReportedKeys == Range(callbacks[1].args[2])

\* C19 as stated: while focused, pressing a mapped non-modifier key emits
\* exactly one keyboard report whose modifier byte is the current modifier
\* mask and whose key list is the set of currently pressed HID codes,
\* including the new key; releasing it emits exactly one report without that
\* key.
C19_KeyEventReportsPressedSet ==
    /\ MappedKeyEvent("KeyPress")
          => /\ OneKeyboardReport
             /\ ReportedKeys = pressed_keys
             /\ KEY_CODES[lastOp.data[1]] \in ReportedKeys
    /\ MappedKeyEvent("KeyRelease")
          => /\ OneKeyboardReport
             /\ ReportedKeys = pressed_keys
             /\ KEY_CODES[lastOp.data[1]] \notin ReportedKeys

\* C19, amended: while focused, pressing a mapped non-modifier key, unless it
\* is the exit hotkey, emits exactly one keyboard report whose modifier byte
\* is the current modifier mask; its key list is the set of currently
\* pressed HID codes, including the new key, when at most 6 keys are pressed,
\* and 6 distinct ones of them otherwise.  Releasing a key emits exactly one
\* report without that key, under the same limit of 6.
C19_KeyEventReportsUpToSixPressed ==
    /\ (MappedKeyEvent("KeyPress") /\ printed # "Exit hotkey pressed")
          => /\ OneKeyboardReport
             /\ ReportedKeys \subseteq pressed_keys
             /\ KEY_CODES[lastOp.data[1]] \in pressed_keys
             /\ Len(callbacks[1].args[2]) = Min(6, Cardinality(pressed_keys))
             /\ Cardinality(ReportedKeys) = Len(callbacks[1].args[2])
    /\ MappedKeyEvent("KeyRelease")
          => /\ OneKeyboardReport
             /\ ReportedKeys \subseteq pressed_keys
             /\ KEY_CODES[lastOp.data[1]] \notin pressed_keys
             /\ Len(callbacks[1].args[2]) = Min(6, Cardinality(pressed_keys))
             /\ Cardinality(ReportedKeys) = Len(callbacks[1].args[2])

\* From the zero state 'a' was pressed: one report, modifier 0, keys [0x04].
C19_Witness ==
    /\ lastOp.op = "KeyPress"
    /\ lastOp.data = <<"a">>
    /\ callbacks = <<KeyboardCall(0, <<4>>)>>
    /\ pressed_keys = {4}

(***************************************************************************)
(* SpecPointer: pointer samples of InputCapture, with and without a        *)
(* capture region, over several start()/stop() cycles.                     *)
(***************************************************************************)
\* `capture_region: Optional[Tuple[int, int, int, int]]`, (x, y, width, height)
Region == <<0, 0, 2, 2>>
\* Root-window positions of the samples; x = 3 lies outside Region.
PointerXs == {0, 1, 3}
PointerYs == {0, 1}

InitPointer ==
    /\ InitBle /\ InitBt /\ InitArgs /\ InitApp /\ InitOut
    /\ require_focus = TRUE
    /\ capture_region \in {<< >>, Region}
    /\ capturing = FALSE
    /\ focus_display = "none"
    /\ modifier_state = 0
    /\ pressed_keys = {}
    /\ mouse_buttons = 0
    /\ last_mouse_x = None
    /\ last_mouse_y = None
    /\ cursor_hidden = FALSE
    /\ last_focus_check = NeverChecked
    /\ last_focus_state = FALSE
    /\ blank_cursor_id = "none"
    /\ uxplay_window = "none"
    /\ reply_left = 0
    /\ stale_left = 0
    /\ crashed = FALSE
    /\ target_focused = TRUE
    /\ query_raises = FALSE
    /\ callback_raises = FALSE
    /\ now = 0
    /\ queries_now = 0
    /\ prev_sample = << >>
    /\ held_modifiers = {}

NextPointer ==
    \/ \E record_ok \in BOOLEAN : Capture_start(TRUE, record_ok)
    \/ Capture_stop
    \/ \E n \in 1..MaxBatch : Capture_reply(n, TRUE)
    \/ \E src \in Threads, x \in PointerXs, y \in PointerYs :
          Capture_MotionNotify(src, x, y)
    \/ \E focused \in BOOLEAN : X_focus(focused)

SpecPointer == InitPointer /\ [][NextPointer]_vars

\* The mouse report a sample at lastOp'.ints owes when the sample before it
\* was prev_sample: none for no movement, else (while the target window holds
\* focus) one report with dx, dy = position - previous position.
DeltaReported ==
    LET dx == lastOp'.ints[1] - prev_sample[1]
        dy == lastOp'.ints[2] - prev_sample[2]
    IN IF dx = 0 /\ dy = 0
          THEN callbacks' = << >>
          ELSE target_focused
                  => /\ Len(callbacks') = 1
                     /\ callbacks'[1].cb = "mouse"
                     /\ callbacks'[1].args[2] = dx
                     /\ callbacks'[1].args[3] = dy

\* C20: after every start(), the first pointer sample only establishes the
\* baseline and emits no mouse report; every later sample emits (while
\* focused) a report whose dx, dy equal the current position minus the
\* previous sample's position, and emits nothing when both are zero.
C20_DeltaFromPreviousSample ==
    [][lastOp'.op = "MotionNotify"
          => IF prev_sample = << >> THEN callbacks' = << >> ELSE DeltaReported]_vars

\* C21: with a capture region configured, a pointer sample outside the
\* region emits no mouse report but still updates the pointer baseline, so
\* the first in-region sample after re-entry yields a delta relative to the
\* last outside position, not to the last in-region position.
C21_OutsideSampleMovesBaseline ==
    [][(lastOp'.op = "MotionNotify" /\ capture_region # << >>)
          => IF ~InRegion(lastOp'.ints[1], lastOp'.ints[2])
                THEN /\ callbacks' = << >>
                     /\ last_mouse_x' = lastOp'.ints[1]
                     /\ last_mouse_y' = lastOp'.ints[2]
                ELSE (prev_sample # << >> /\ ~InRegion(prev_sample[1], prev_sample[2]))
                        => DeltaReported]_vars

(***************************************************************************)
(* SpecScroll: button and scroll events of InputCapture.                   *)
(***************************************************************************)
\* X button numbers: 1 left, 3 right, 4 scroll up, 5 scroll down.
ScrollButtons == {1, 3, 4, 5}

NextScroll ==
    \/ Capture_start(TRUE, TRUE)
    \/ Capture_stop
    \/ \E n \in 1..MaxBatch : Capture_reply(n, TRUE)
    \/ \E src \in Threads, button \in ScrollButtons : Capture_ButtonPress(src, button)
    \/ \E src \in Threads, button \in ScrollButtons : Capture_ButtonRelease(src, button)
    \/ \E focused \in BOOLEAN : X_focus(focused)
    \/ \E raises \in BOOLEAN : X_query(raises)

SpecScroll == InitGate /\ [][NextScroll]_vars

ScrollEvent(kind) == lastOp'.op = kind /\ lastOp'.ints[1] \in {4, 5}

\* C22: a scroll step (button 4 or 5 press) emits, while focused, exactly one
\* mouse report with dx = dy = 0 and wheel = +3 (up) or -3 (down) carrying
\* the current button mask, and leaves the button mask unchanged; the
\* matching scroll button release emits no report and changes no state.
C22_ScrollIsOneShot ==
    [][/\ ScrollEvent("ButtonPress")
             => /\ mouse_buttons' = mouse_buttons
                /\ Len(callbacks') <= 1
                /\ target_focused
                      => callbacks' = <<MouseCall(mouse_buttons, 0, 0,
                                          IF lastOp'.ints[1] = 4 THEN 3 ELSE -3)>>
       /\ ScrollEvent("ButtonRelease")
             => /\ callbacks' = << >>
                /\ UNCHANGED <<capKeys, capMouse, capCursor>>]_vars

\* With the left button held, a scroll-down step reported wheel = -3 with
\* mask 0x01, and the mask is still 0x01.
C22_Witness ==
    /\ lastOp.op = "ButtonPress"
    /\ lastOp.ints = <<5>>
    /\ callbacks = <<MouseCall(1, 0, 0, -3)>>
    /\ mouse_buttons = 1

(***************************************************************************)
(* SpecApp: the application: IPadRemote.run, the capture threads handing   *)
(* reports to the event loop, the loop passing them to BLEHIDProfile, and  *)
(* the peer subscribing and unsubscribing.                                 *)
(***************************************************************************)
AppKeysyms == {"a"}
\* Pointer positions, more than 127 apart.
AppXs == {0, 200}
AppCccdWrites == {<<0, 0>>, <<1, 0>>}

\* The target window holds the focus throughout.
InitApplication ==
    /\ InitBle /\ InitBt /\ InitArgs /\ InitApp /\ InitOut
    /\ require_focus = TRUE
    /\ capture_region = << >>
    /\ capturing = FALSE
    /\ focus_display = "none"
    /\ modifier_state = 0
    /\ pressed_keys = {}
    /\ mouse_buttons = 0
    /\ last_mouse_x = None
    /\ last_mouse_y = None
    /\ cursor_hidden = FALSE
    /\ last_focus_check = NeverChecked
    /\ last_focus_state = FALSE
    /\ blank_cursor_id = "none"
    /\ uxplay_window = "none"
    /\ reply_left = 0
    /\ stale_left = 0
    /\ crashed = FALSE
    /\ target_focused = TRUE
    /\ query_raises = FALSE
    /\ callback_raises = FALSE
    /\ now = 0
    /\ queries_now = 0
    /\ prev_sample = << >>
    /\ held_modifiers = {}

NextApp ==
    \/ \E adapter \in BOOLEAN : App_run_start(adapter)
    \/ \E record_ok \in BOOLEAN : App_run_capture(TRUE, record_ok)
    \/ App_signal
    \/ App_wait_ends
    \/ App_stop
    \/ Loop_callback
    \/ Loop_step
    \/ \E c \in ReportChrcs, value \in AppCccdWrites : CCCD_WriteValue(c, value)
    \/ Capture_reply(1, TRUE)
    \/ \E keysym \in AppKeysyms : Capture_KeyPress("live", keysym)
    \/ \E x \in AppXs : Capture_MotionNotify("live", x, 0)

SpecApp == InitApplication /\ [][NextApp]_vars

\* C23: reports of one source stream preserve capture order across the
\* hand-off from the capture thread to the event loop: if keyboard report r1
\* is submitted before keyboard report r2, the transport never processes or
\* delivers r2 before r1, and the same holds for two mouse reports.
C23_StreamOrderPreserved ==
    \A i, j \in 1..Len(processed) :
        (i < j /\ processed[i].cb = processed[j].cb) => processed[i].n < processed[j].n

\* Two reports of one stream were processed, the second one delivered while a
\* third submission is still queued behind it.
C23_Witness ==
    /\ Len(processed) = 2
    /\ processed[1].cb = processed[2].cb
    /\ processed[1].n < processed[2].n
    /\ emitted # << >>
    /\ loop_ready # << >>

\* The step ran the coroutine of a submitted report.
ReportProcessed == lastOp'.op \in {"send_keyboard_report", "send_mouse_report"}

\* The payload v carries the keyboard report (modifier_keys, keys).
CarriesKeyboard(v, args) ==
    /\ Len(v) = 8
    /\ v[1] = args[1]
    /\ v[2] = 0
    /\ \A i \in 1..6 : v[i + 2] = IF i <= Len(args[2]) THEN args[2][i] ELSE 0

\* The payload v carries the mouse report (buttons, x, y, wheel); exact: the
\* deltas themselves, otherwise the deltas limited to -127..127.
CarriesMouse(v, args, exact) ==
    /\ Len(v) = 4
    /\ v[1] = args[1]
    /\ \A i \in 2..4 :
          /\ v[i] \in 0..255
          /\ DecodeByte(v[i]) = IF exact THEN args[i] ELSE Limited(args[i])

\* How the step that processes a submitted report treats it: the report was
\* not processed before and is not queued again; if its characteristic has a
\* subscriber and the profile is connected, exactly one signal carries it to
\* the peer, otherwise nothing is emitted or stored.  No other step emits.
HandledOnce(exact) ==
    /\ emitted' # << >> => ReportProcessed
    /\ ReportProcessed =>
          LET done == processed'[Len(processed')]
              e == CHOOSE q \in {loop_ready[i] : i \in 1..Len(loop_ready)} : q.n = done.n
              c == IF e.cb = "keyboard" THEN "keyboard_report" ELSE "mouse_report"
          IN /\ Len(processed') = Len(processed) + 1
             /\ \A i \in 1..Len(processed) : processed[i].n # done.n
             /\ \A i \in 1..Len(loop_ready') : loop_ready'[i].n # done.n
             /\ Len(loop_ready') = Len(loop_ready) - 1
             /\ IF notifying[c] /\ ble_connected
                   THEN /\ Len(emitted') = 1
                        /\ emitted'[1].chrc = c
                        /\ IF e.cb = "keyboard"
                              THEN CarriesKeyboard(emitted'[1].value, e.args)
                              ELSE CarriesMouse(emitted'[1].value, e.args, exact)
                   ELSE /\ emitted' = << >>
                        /\ chrc_value' = chrc_value

\* C24: every report the capture thread submits is either delivered to the
\* peer exactly once and unmodified, or dropped because the characteristic
\* has no subscriber / the channel has no peer when it is processed; no
\* report is delivered twice, retried after a drop, or merged with another
\* report (every motion delta is forwarded as its own report).
C24_DeliveredOnceUnmodified == [][HandledOnce(TRUE)]_vars

\* C24, amended: as C24, except that a mouse report whose dx, dy or wheel lies
\* outside -127..127 is delivered with that value clamped to -127..127.
C24_DeliveredOnceAsEncoded == [][HandledOnce(FALSE)]_vars

\* The loop processed the mouse report of a 200 pixel movement and the peer
\* got it once, with dx = 127.
C24_Witness ==
    /\ lastOp.op = "send_mouse_report"
    /\ lastOp.ints = <<0, 200, 0, 0>>
    /\ emitted = <<Signal("mouse_report", <<0, 127, 0, 0>>)>>
    /\ processed # << >>

(***************************************************************************)
(* SpecLifecycle: starting, stopping and restarting BLEHIDProfile, with     *)
(* BlueZ answering the registrations and the peer subscribing.             *)
(***************************************************************************)
Registrations == {"app", "adv"}

NextLifecycle ==
    \/ \E adapter \in BOOLEAN : BLE_start(adapter)
    \/ BLE_stop
    \/ \E r \in Registrations, ok \in BOOLEAN : Bluez_reply(r, ok)
    \/ \E a \in KeyboardArgs : BLE_send_keyboard_report(a.m, a.ks)
    \/ \E a \in MouseArgs : BLE_send_mouse_report(a.b, a.x, a.y, a.w)
    \/ \E c \in ReportChrcs, value \in CccdWrites : CCCD_WriteValue(c, value)

SpecLifecycle == InitNotify /\ [][NextLifecycle]_vars

\* HIDProfile.close() leaves all four sockets closed, and whenever
\* accept_connections ends connected both sockets listen and both clients are
\* the ones it accepted (which the peer may have dropped since).
ClassicReleasesAndRestarts ==
    /\ lastOp.op = "close"
          => /\ {ctrl_sock, intr_sock} \subseteq {"none", "closed"}
             /\ {ctrl_client, intr_client} \subseteq {"none", "closed"}
    /\ (lastOp.op = "accept_connections" /\ lastOp.on = "done")
          => /\ connected
             /\ ctrl_sock = "listening" /\ intr_sock = "listening"
             /\ {ctrl_client, intr_client} \subseteq {"open", "dead"}

\* C25: stopping a transport releases everything it registered,
\* synchronously, and leaves it restartable: after BLEHIDProfile.stop() the
\* GATT application, its objects and the advertisement are unregistered,
\* after HIDProfile.close() all four sockets are closed, and a following
\* start (BLE start(), or classic setup_sockets + accept_connections)
\* succeeds and reaches the same ready state as the first start.
C25_StopReleasesAndRestarts ==
    /\ (lastOp.op = "stop" /\ lastOp.on = "")
          => /\ ~hid_service
             /\ app_reg = "none"
             /\ adv_reg = "none"
    /\ (lastOp.op = "start" /\ lastOp.on = "" /\ ~ble_connected) => raised # "KeyError"
    /\ ClassicReleasesAndRestarts

BleSendOps == {"send_keyboard_report", "send_mouse_report"}

\* C26: if no adapter with the LE advertising capability exists,
\* BLEHIDProfile.start() raises a fatal error, the profile is never marked
\* connected, no GATT application or advertisement is created, and every
\* later send_keyboard_report / send_mouse_report is a no-op.
C26_NoAdapterIsFatal ==
    /\ [](~hid_service => (~ble_connected /\ app_reg = "none" /\ adv_reg = "none"
                           /\ mainloop = "none"))
    /\ [][/\ (lastOp'.op = "start" /\ lastOp'.on = "" /\ raised' = "Exception")
               => /\ UNCHANGED <<bleVars, gattVars>>
                  /\ emitted' = << >>
          /\ (lastOp'.op = "start" /\ lastOp'.on = "" /\ ~hid_service /\ ~hid_service')
               => raised' = "Exception"
          /\ (lastOp'.op \in BleSendOps /\ ~hid_service)
               => /\ UNCHANGED <<bleVars, gattVars>>
                  /\ emitted' = << >>
                  /\ raised' = "none"]_vars

\* start() found no adapter and raised, on a profile that was never started.
C26_Witness ==
    /\ lastOp.op = "start"
    /\ lastOp.on = ""
    /\ raised = "Exception"
    /\ ~hid_service
    /\ ~ble_connected
    /\ app_reg = "none"
    /\ adv_reg = "none"

\* C27: a failure to register the GATT application or the advertisement is
\* surfaced to the caller of BLEHIDProfile.start(): start() does not complete
\* as a success (marking the profile connected) when either registration
\* failed.
C27_RegistrationFailureSurfaced ==
    (app_reg = "failed" \/ adv_reg = "failed") => ~ble_connected

(***************************************************************************)
(* SpecCrash: InputCapture between start() and stop() with callbacks that  *)
(* may raise while an event is handed to them.                             *)
(***************************************************************************)
CrashKeysyms == {"a", "Control_L"}
CrashXs == {0, 1}

NextCrash ==
    \/ Capture_start(TRUE, TRUE)
    \/ Capture_stop
    \/ \E n \in 1..MaxBatch : Capture_reply(n, TRUE)
    \/ \E src \in Threads, keysym \in CrashKeysyms : Capture_KeyPress(src, keysym)
    \/ \E src \in Threads, keysym \in CrashKeysyms : Capture_KeyRelease(src, keysym)
    \/ \E src \in Threads, x \in CrashXs : Capture_MotionNotify(src, x, 0)
    \/ \E focused \in BOOLEAN : X_focus(focused)
    \/ \E raises \in BOOLEAN : X_callback(raises)

SpecCrash == InitGate /\ [][NextCrash]_vars

\* C28 as stated: an exception raised by the registered keyboard or mouse
\* callback while one event is handled does not end the capture loop: while
\* capture is on, the capture thread is still running and takes later
\* replies.
C28_CaptureLoopSurvivesCallback ==
    capturing => ~crashed

(***************************************************************************)
(* SpecExit: the application from run() on, with the keys of the exit      *)
(* hotkey.  The event loop runs every callback that is ready and resumes   *)
(* run() after each sleep, so the steps of the loop's thread are weakly    *)
(* fair; signals and input events are the environment's and are not.       *)
(***************************************************************************)
ExitKeysyms == {"Control_L", "Alt_L", "q"}

NextExit ==
    \/ \E adapter \in BOOLEAN : App_run_start(adapter)
    \/ \E record_ok \in BOOLEAN : App_run_capture(TRUE, record_ok)
    \/ App_signal
    \/ App_wait_ends
    \/ App_stop
    \/ Loop_callback
    \/ Loop_step
    \/ Capture_reply(1, TRUE)
    \/ \E keysym \in ExitKeysyms : Capture_KeyPress("live", keysym)
    \/ \E keysym \in ExitKeysyms : Capture_KeyRelease("live", keysym)

FairLoop ==
    /\ WF_vars(App_wait_ends)
    /\ WF_vars(App_stop)
    /\ WF_vars(Loop_callback)
    /\ WF_vars(Loop_step)

SpecExit == InitApplication /\ [][NextExit]_vars /\ FairLoop

\* The step was a key press recognised as the exit hotkey, taken while run()
\* waits in its loop and no signal has been received.
HotkeyPressed ==
    /\ lastOp.op = "KeyPress"
    /\ printed = "Exit hotkey pressed"
    /\ run_pc = "waiting"
    /\ running

\* C29 as stated: in the full application the exit hotkey eventually makes
\* the application exit: once the hotkey has stopped input capture, the run
\* loop terminates, the BLE transport is stopped and run() returns.
C29_HotkeyExits ==
    HotkeyPressed ~> (run_pc = "returned" /\ ~ble_connected)

(***************************************************************************)
(* SpecUnmapped: key events of a mapped key, a modifier and two keys the   *)
(* symbol table has no entry for.                                          *)
(***************************************************************************)
UnmappedKeysyms == {"F13", "Num_Lock"}
MixedKeysyms == {"a", "Control_L"} \cup UnmappedKeysyms

NextUnmapped ==
    \/ \E ok \in BOOLEAN : Capture_reply(1, ok)
    \/ \E keysym \in MixedKeysyms : Capture_KeyPress("live", keysym)
    \/ \E keysym \in MixedKeysyms : Capture_KeyRelease("live", keysym)
    \/ \E focused \in BOOLEAN : X_focus(focused)

SpecUnmapped == InitKeys /\ [][NextUnmapped]_vars

\* The step processes the press or release of a key that is not a modifier
\* and has no entry in KEY_CODES.
UnmappedKeyEvent ==
    /\ lastOp'.op \in {"KeyPress", "KeyRelease"}
    /\ ~is_modifier(lastOp'.data[1])
    /\ lastOp'.data[1] \notin DOMAIN KEY_CODES

\* C30: a key press or release whose symbol is not a modifier and has no
\* entry in the symbol-to-HID table produces no keyboard report and leaves
\* the modifier mask and the pressed-key set unchanged.
C30_UnmappedKeyIsIgnored ==
    [][UnmappedKeyEvent =>
          /\ callbacks' = << >>
          /\ modifier_state' = modifier_state
          /\ pressed_keys' = pressed_keys]_vars

\* An unmapped key was pressed with the target focused while a modifier and
\* a mapped key were held: nothing was reported and both are still held.
C30_Witness ==
    /\ lastOp.op = "KeyPress"
    /\ lastOp.data = <<"F13">>
    /\ target_focused
    /\ modifier_state = MODIFIER_LEFT_CTRL
    /\ pressed_keys = {4}
    /\ callbacks = << >>

(***************************************************************************)
(* SpecModifiers: presses and releases of modifier keys, with the two      *)
(* sides of one modifier, two keys that share the GUI bit and one          *)
(* non-modifier key.  A modifier key is released only while it is held.    *)
(***************************************************************************)
ModifierKeysyms == {"Control_L", "Control_R", "Super_L", "Meta_L"}
ModifierBits == {MODIFIER_KEYSYMS[k] : k \in DOMAIN MODIFIER_KEYSYMS}

NextModifiers ==
    \/ \E ok \in BOOLEAN : Capture_reply(1, ok)
    \/ \E keysym \in ModifierKeysyms \cup {"a"} : Capture_KeyPress("live", keysym)
    \/ \E keysym \in ModifierKeysyms \cup {"a"} :
          /\ is_modifier(keysym) => keysym \in held_modifiers
          /\ Capture_KeyRelease("live", keysym)
    \/ \E focused \in BOOLEAN : X_focus(focused)

SpecModifiers == InitKeys /\ [][NextModifiers]_vars

\* A modifier key mapped to the bit is held.
BitHeld(bit) == \E k \in held_modifiers : MODIFIER_KEYSYMS[k] = bit

\* C31 as stated: after any sequence of modifier key presses and releases
\* each bit of the modifier mask is set if and only if at least one modifier
\* key mapped to that bit is held; the mask stays within 0..255 and
\* non-modifier keys never change it.
C31_MaskMatchesHeldModifiers ==
    /\ [](/\ modifier_state \in 0..255
          /\ \A bit \in ModifierBits : HasBit(modifier_state, bit) <=> BitHeld(bit))
    /\ [][(lastOp'.op \in {"KeyPress", "KeyRelease"} /\ ~is_modifier(lastOp'.data[1]))
             => modifier_state' = modifier_state]_vars

(***************************************************************************)
(* SpecButtons: press and release events of the three buttons, a scroll    *)
(* button and an extra button, while the focus moves.                      *)
(***************************************************************************)
\* X button numbers: 1 left, 2 middle, 3 right, 4 scroll up, 8 an extra button.
Buttons == {1, 2, 3, 4, 8}

NextButtons ==
    \/ \E ok \in BOOLEAN : Capture_reply(1, ok)
    \/ \E button \in Buttons : Capture_ButtonPress("live", button)
    \/ \E button \in Buttons : Capture_ButtonRelease("live", button)
    \/ \E focused \in BOOLEAN : X_focus(focused)
    \/ \E raises \in BOOLEAN : X_query(raises)

SpecButtons == InitKeys /\ [][NextButtons]_vars

\* The step is an event of the button: its press sets the bit, its release
\* clears it; every other step leaves the bit as it is.
BitFollowsButton(button, bit) ==
    IF lastOp'.op = "ButtonPress" /\ lastOp'.ints = <<button>>
       THEN HasBit(mouse_buttons', bit)
    ELSE IF lastOp'.op = "ButtonRelease" /\ lastOp'.ints = <<button>>
       THEN ~HasBit(mouse_buttons', bit)
    ELSE HasBit(mouse_buttons', bit) <=> HasBit(mouse_buttons, bit)

\* C32: after any sequence of button events the button mask stays within
\* 0..7 and bit 0 / bit 1 / bit 2 is set exactly when the left / right /
\* middle button is held; buttons other than 1, 2, 3 never change the mask,
\* and every press or release of a non-scroll button emits, while focused,
\* one report with zero motion carrying the updated mask.
C32_ButtonMaskFollowsButtons ==
    /\ [](mouse_buttons \in 0..7)
    /\ [][/\ BitFollowsButton(1, 1)
          /\ BitFollowsButton(3, 2)
          /\ BitFollowsButton(2, 4)
          /\ (lastOp'.op \in {"ButtonPress", "ButtonRelease"}
                /\ lastOp'.ints[1] \notin {1, 2, 3})
                => mouse_buttons' = mouse_buttons
          /\ (lastOp'.op \in {"ButtonPress", "ButtonRelease"}
                /\ lastOp'.ints[1] \notin {4, 5})
                => /\ Len(callbacks') <= 1
                   /\ target_focused
                         => callbacks' = <<MouseCall(mouse_buttons', 0, 0, 0)>>]_vars

\* With all three buttons held and the target focused the middle button was
\* released: one report carries left and right.
C32_Witness ==
    /\ lastOp.op = "ButtonRelease"
    /\ lastOp.ints = <<2>>
    /\ target_focused
    /\ mouse_buttons = 3
    /\ callbacks = <<MouseCall(3, 0, 0, 0)>>

\* The event is handled with the focus gate open: focus is not required, the
\* query cannot be made or raises, or the target window holds the focus.
GateOpen ==
    \/ ~require_focus
    \/ focus_display # "open"
    \/ query_raises
    \/ target_focused

\* C33: best-effort degradation fails open.  Without a blank cursor, or when
\* the target window is not found, cursor_hidden does not become true, and
\* capture and reporting go on: the step raises nothing, capture stays on
\* and a key press is reported whatever the cursor state.  When the focus
\* query is unavailable or raises, the window is treated as focused and the
\* report is emitted.
C33_BestEffortFailsOpen ==
    /\ [](blank_cursor_id = "none" => ~cursor_hidden)
    /\ [][/\ (lastOp'.op = "reply" /\ uxplay_window' = "none") => ~cursor_hidden'
          /\ lastOp'.op = "reply"
                => /\ raised' = "none"
                   /\ capturing' = capturing
                   /\ reply_left' = lastOp'.ints[1]
          /\ (lastOp'.op = "KeyPress" /\ GateOpen)
                => callbacks' = <<KeyboardCall(modifier_state', <<4>>)>>]_vars

\* Capture was started without a blank cursor and saw the focus gained with
\* the cursor left visible; later the focus query raises while the target
\* is not focused, and a key press is reported all the same.
C33_Witness ==
    /\ lastOp.op = "KeyPress"
    /\ lastOp.on = "live"
    /\ capturing
    /\ blank_cursor_id = "none"
    /\ last_focus_state
    /\ ~cursor_hidden
    /\ query_raises
    /\ ~target_focused
    /\ callbacks = <<KeyboardCall(0, <<4>>)>>

(***************************************************************************)
(* SpecRecord: start() on an X server with or without the RECORD           *)
(* extension, stop(), and key events of the running and of a stopped       *)
(* cycle.                                                                  *)
(***************************************************************************)
NextRecord ==
    \/ \E cursor_ok, record_ok \in BOOLEAN : Capture_start(cursor_ok, record_ok)
    \/ Capture_stop
    \/ Capture_reply(1, TRUE)
    \/ \E src \in Threads : Capture_KeyPress(src, "a")
    \/ \E focused \in BOOLEAN : X_focus(focused)

SpecRecord == InitGate /\ [][NextRecord]_vars

\* The step is a start() that found no RECORD extension.
StartFailed == lastOp'.op = "start" /\ raised' = "RuntimeError"

\* C34: if the RECORD extension is unavailable, start() raises, capturing
\* stays false, no capture thread is spawned (nothing delivers a reply or an
\* event to a thread of this cycle, so none of its callbacks fires) and a
\* later start() is a new attempt: it starts capture or raises again, and
\* never returns as if capture were already on.
C34_StartWithoutRecordFails ==
    /\ [](~capturing => reply_left = 0)
    /\ []((lastOp.on = "live" /\ callbacks # << >>) => capturing)
    /\ [][/\ StartFailed
                => /\ ~capturing /\ ~capturing'
                   /\ reply_left' = 0
                   /\ callbacks' = << >>
                   /\ printed' = ""
          /\ (lastOp'.op = "start" /\ ~capturing)
                => \/ StartFailed
                   \/ /\ capturing'
                      /\ raised' = "none"
                      /\ printed' = "Input capture started"]_vars

\* start() raised for want of the RECORD extension, after an earlier cycle
\* had been started and stopped: capture is off and no thread of a new cycle
\* has anything to process.
C34_Witness ==
    /\ lastOp.op = "start"
    /\ raised = "RuntimeError"
    /\ ~capturing
    /\ reply_left = 0
    /\ stale_left > 0
    /\ callbacks = << >>

\* C35 as stated: whenever setup_sockets raises (the retry budget exhausted,
\* or a bind/listen error other than address-in-use at the control or at the
\* interrupt socket) no listening socket is left open: the control and the
\* interrupt socket fields are both closed and unset.
C35_SetupFailureLeavesNoSocket ==
    (lastOp.op = "setup_sockets" /\ raised # "none")
       => (ctrl_sock = "none" /\ intr_sock = "none")

\* C36 as stated: whenever run() returns after input capture was started
\* (start() opened its displays), whether the loop was ended by a signal
\* clearing running or by an exception, input capture has been stopped and
\* the BLE transport has been stopped.
C36_ReturnStopsCaptureAndTransport ==
    (run_pc = "returned" /\ focus_display # "none")
       => (~capturing /\ ~ble_connected)

\* C37 as stated: when stop() is called from another thread while the
\* capture thread is in the middle of a reply, then after stop() has returned
\* the events that thread still processes invoke no keyboard or mouse
\* callback and leave the transient state (modifier mask, pressed keys,
\* button mask, pointer baseline) zero until the next start().
C37_ConcurrentStopSilences ==
    [][(lastOp'.on = "stale" /\ ~capturing)
          => /\ callbacks' = << >>
             /\ modifier_state' = 0
             /\ pressed_keys' = {}
             /\ mouse_buttons' = 0
             /\ last_mouse_x' = None
             /\ last_mouse_y' = None]_vars

\* C38 as stated: at most one capture loop is active at any time: start()
\* while capturing spawns no second capture thread, and after a start() that
\* follows a stop() no thread left over from the previous cycle is still
\* processing events alongside the new capture loop.
C38_AtMostOneCaptureLoop ==
    /\ [](capturing => stale_left = 0)
    /\ [][(lastOp'.op = "start" /\ lastOp'.on = "capture" /\ capturing)
             => UNCHANGED <<capturing, reply_left, stale_left, focus_display>>]_vars

(***************************************************************************)
(* SpecAttributes: the whole attribute table under a peer that reads and   *)
(* writes every attribute, subscribes and unsubscribes, while reports are  *)
(* sent.                                                                   *)
(***************************************************************************)
AttrWrites == {<<3>>}

NextAttributes ==
    \/ \E adapter \in BOOLEAN : BLE_start(adapter)
    \/ BLE_stop
    \/ \E c \in Attrs : Chrc_ReadValue(c)
    \/ \E c \in Attrs, value \in AttrWrites : Peer_write(c, value)
    \/ \E c \in ReportChrcs, value \in CccdWrites : CCCD_WriteValue(c, value)
    \/ \E c \in ReportChrcs : StartNotify(c)
    \/ \E c \in ReportChrcs : StopNotify(c)
    \/ \E a \in KeyboardArgs : BLE_send_keyboard_report(a.m, a.ks)
    \/ \E a \in MouseArgs : BLE_send_mouse_report(a.b, a.x, a.y, a.w)

SpecAttributes == InitNotify /\ [][NextAttributes]_vars

CccdBit0(c) == Len(cccd_value[c]) > 0 /\ NotificationsEnabled(cccd_value[c])

\* C40: in every reachable state the value stored in the CCCD of a report
\* characteristic agrees with its notifying flag: bit 0 of byte 0 of the
\* CCCD value is 1 if and only if notifying is true, after any sequence of
\* CCCD writes, StartNotify and StopNotify calls.
C40_CccdAgreesWithNotifyState ==
    \A c \in ReportChrcs : CccdBit0(c) <=> notifying[c]

====
